---- MODULE Spec2Model ----
(***************************************************************************)
(* Model of the Winfraatech Enquiry Manager client logic:                  *)
(*   - NotificationService (src/src/services/notificationService.ts)       *)
(*   - SupabaseService.getUpcomingReminders / getEnquiries                 *)
(*     (src/src/services/supabaseService.ts)                               *)
(*   - EnquiryListScreen.applySearch (src/unnamed/part_002)                *)
(*                                                                         *)
(* JavaScript runs one task at a time; a task gives up control only at an  *)
(* await.  Every action below is the code between two awaits of one async  *)
(* invocation.  A platform call takes effect when it is issued and may     *)
(* fail (the promise rejects); the continuation is a later step.           *)
(***************************************************************************)
EXTENDS Integers, Sequences, FiniteSets, TLC

(* ------------------------------ bounds --------------------------------- *)
MaxTasks == 2        \* async invocations in flight at once
MaxReminders == 2    \* reminder rows in the backend
MaxHandles == 2      \* platform notification identifiers in use at once
MaxNow == 1          \* the clock advances from 0 to MaxNow seconds
MaxRows == 2         \* enquiry rows in the backend, and in a loaded list
MaxTermLen == 2      \* characters in a search term
MaxProvided == 2     \* fields present in a filter object
MaxRuns == 3         \* runs of equal characters in a generated text
MaxInflight == 2     \* invocations of screen handlers in flight

(* ----------------------- program constants ----------------------------- *)
SyncHorizonDays == 30
ImmediateDelaySeconds == 1
SecondsPerDay == 24 * 60 * 60
ListLimit == 100         \* EnquiryListScreen.loadEnquiries: getEnquiries(filters, 100, 0)
DashboardLimit == 5      \* dashboard: getEnquiries(undefined, 5, 0)
ExportLimit == 1000      \* getEnquiriesForExport: getEnquiries(filters, 1000, 0)
MinContentLength == 50   \* validateResponse: content.trim().length < 50
MaxContentLength == 5000 \* validateResponse: content.length > 5000
FollowupDays == 7        \* getDashboardSummary: Date.now() + 7 * 24 * 60 * 60 * 1000

Null == 0            \* null / undefined / Map miss
NoReminder == 0      \* a payload without data.reminder_id

Tasks == 1..MaxTasks
RIDs == 1..MaxReminders
Handles == 1..MaxHandles
\* Due times: one the clock reaches (after, at and before the current time as
\* the clock advances) and one that lies beyond the sync horizon at time 0 and
\* within it afterwards.
Dates == {1, SyncHorizonDays * SecondsPerDay + 1}

VARIABLES
    now,                     \* Date.now(), in seconds
    reminders,               \* backend table `reminders`: id -> row
    scheduledNotifications,  \* NotificationService.scheduledNotifications
    pending,                 \* notifications the platform holds scheduled
    tasks,                   \* async invocations of the service in flight
    overlap,                 \* whether callers start a call while another is in flight
    ev,                      \* history: the platform call of the step just taken
    chain,                   \* history: a schedule directly followed by a cancel
    enqTable,                \* backend table `enquiries`, joined with company and contact
    query,                   \* the getEnquiries call in flight or last answered
    enquiries,               \* EnquiryListScreen state `enquiries`
    searchTerm,              \* EnquiryListScreen state `searchTerm`
    filteredEnquiries,       \* EnquiryListScreen state `filteredEnquiries`
    companies,               \* backend table `companies`
    contacts,                \* backend table `contacts`
    exp,                     \* the export under way (handleExport)
    ai,                      \* the email generation under way (EmailComposeScreen)
    db,                      \* the data-access call under way (SupabaseService)
    form,                    \* the AddEnquiryScreen flow under way
    detail,                  \* EnquiryDetailScreen state and the backend row it shows
    inflight                 \* invocations of screen handlers awaiting a backend answer

notifVars == <<now, reminders, scheduledNotifications, pending, tasks, overlap, ev, chain>>
listVars == <<enqTable, query, enquiries, searchTerm, filteredEnquiries>>
flowVars == <<companies, contacts, exp, ai, db, form>>
screenVars == <<detail, inflight>>
vars == <<notifVars, listVars, flowVars, screenVars>>

(* ------------------------------ helpers -------------------------------- *)
Range(s) == {s[i] : i \in 1..Len(s)}

Max(S) == CHOOSE x \in S : \A y \in S : y <= x

\* The ids of S as an ascending sequence of the rows, ordered by key(row).
RECURSIVE SortBy(_, _)
SortBy(S, key) ==
    IF S = {} THEN <<>>
    ELSE LET m == CHOOSE x \in S : \A y \in S : key[x] < key[y] \/ (key[x] = key[y] /\ x <= y)
         IN <<m>> \o SortBy(S \ {m}, key)

(* --------------------------- task records ------------------------------ *)
\* One async invocation of a NotificationService method.  op and pc say where it
\* is; rid/handle/fetched/idx are its locals; the rest is history kept for the
\* properties: calls (the ids passed to scheduleReminderNotification), path (the
\* branch taken), cancelOk and swept (the platform cancel succeeded, and it
\* removed a pending notification), firstFail (the first loop index at which
\* the platform failed), alone (no other invocation ran meanwhile), caught (the
\* method that caught an error) and ret (how the invocation ended).
Idle == [op |-> "idle", pc |-> "idle", rid |-> Null, handle |-> Null,
         fetched |-> <<>>, idx |-> 0, calls |-> <<>>, path |-> "none",
         cancelOk |-> FALSE, swept |-> FALSE, alone |-> TRUE, firstFail |-> 0,
         caught |-> "none", ret |-> "none"]

NoEvent == [api |-> "none", arg |-> Null, ok |-> TRUE, fin |-> Idle]

NoChain == [stage |-> "none", t |-> 0, rid |-> Null, outcome |-> "none",
            prior |-> FALSE, cancels |-> 0]

(* ------------------------- backend: reminders -------------------------- *)
ReminderRow(r) == [id |-> r, date |-> reminders[r].date,
                   is_completed |-> reminders[r].is_completed]

\* The rows the query of getUpcomingReminders(days) selects at time `today`.
UpcomingSet(today, days) ==
    {r \in RIDs : /\ reminders[r].is_completed = FALSE
                  /\ reminders[r].date >= today
                  /\ reminders[r].date <= today + days * SecondsPerDay}

\* .order('reminder_date', ascending): every order of the selected rows that is
\* non-decreasing in reminder_date (rows with equal dates come in any order).
UpcomingOrders(today, days) ==
    LET S == UpcomingSet(today, days)
        n == Cardinality(S)
    IN {[i \in 1..n |-> ReminderRow(f[i])] :
          f \in {g \in [1..n -> S] :
                   /\ \A i, j \in 1..n : i # j => g[i] # g[j]
                   /\ \A i, j \in 1..n : i < j => reminders[g[i]].date <= reminders[g[j]].date}}

(* ------------------------ platform notification API -------------------- *)
\* Identifiers some part of the state still refers to.
HandlesInUse == {n.h : n \in pending}
                \cup {scheduledNotifications[r] : r \in RIDs}
                \cup {tasks[u].handle : u \in Tasks}

\* The platform hands out an identifier that is unique among those referred to.
nextHandle == IF Handles \ HandlesInUse = {} THEN Null
              ELSE CHOOSE h \in Handles \ HandlesInUse :
                     \A g \in Handles \ HandlesInUse : h <= g

Notification(h, rid, date) == [h |-> h, rid |-> rid, date |-> date]

\* Notifications.scheduleNotificationAsync: a new pending notification.
PlatformSchedule(ok, rid, date) ==
    IF ok THEN pending \cup {Notification(nextHandle, rid, date)} ELSE pending

\* Notifications.cancelScheduledNotificationAsync(handle)
PlatformCancel(ok, h) ==
    IF ok THEN {n \in pending : n.h # h} ELSE pending

\* Notifications.cancelAllScheduledNotificationsAsync()
PlatformCancelAll(ok) == IF ok THEN {} ELSE pending

\* A notification whose trigger date has come is delivered and no longer pending.
StillPending(t) == {n \in pending : n.date > t}

(* ----------------------- NotificationService ---------------------------- *)
\* Mutant: the two schedule helpers leave error handling to their callers.
TryCatchCallersOnly == {"initializeNotifications", "scheduleLocalNotification",
                        "cancelNotification", "cancelReminderNotification",
                        "cancelAllNotifications", "syncReminders",
                        "sendImmediateNotification"}

\* The methods whose whole body is inside try { } catch { console.error }.
TryCatch == {"initializeNotifications", "scheduleNotification",
             "scheduleLocalNotification", "scheduleReminderNotification",
             "cancelNotification", "cancelReminderNotification",
             "cancelAllNotifications", "syncReminders",
             "sendImmediateNotification"}

\* Mutant: no method catches.
CatcherNone(stack) == "none"

\* The innermost method of the call stack that catches an error thrown at its
\* top, "none" when the error leaves the outermost method.
Catcher(stack) ==
    LET I == {i \in 1..Len(stack) : stack[i] \in TryCatch}
    IN IF I = {} THEN "none" ELSE stack[Max(I)]

\* The call stack of a syncReminders invocation.  Called from
\* initializeNotifications (line 42) it is the last thing that method does, so
\* from the call on the invocation is followed as the sync it is.
SyncStack == <<"syncReminders">>

\* Mutant: a reminder due exactly now is still scheduled.
ReminderIsPastStrict(date, today) == date < today

\* scheduleReminderNotification: "Check if reminder date is in the future".
ReminderIsPast(date, today) == date <= today

\* Mutant: the identifier is not recorded.
MapSetNothing(m, rid, handle) == m

\* this.scheduledNotifications.set(reminder.id, notificationId), under `if (notificationId)`.
MapSet(m, rid, handle) == IF handle # Null THEN [m EXCEPT ![rid] = handle] ELSE m

\* Mutant: the entry is never removed.
MapDeleteNothing(m, rid) == m

\* Mutant: every entry is removed.
MapDeleteAll(m, rid) == [r \in RIDs |-> Null]

\* this.scheduledNotifications.delete(reminderId)
MapDelete(m, rid) == [m EXCEPT ![rid] = Null]

\* Mutant: the map is left as it is.
MapClearNothing(m) == m

\* this.scheduledNotifications.clear()
MapClear(m) == [r \in RIDs |-> Null]

\* Mutant: every other reminder is passed over.
SyncNextIdxSkip(idx) == idx + 2

\* The for-of loop of syncReminders moves on to the next reminder.
SyncNextIdx(idx) == idx + 1

\* `if (!reminder.is_completed)` in the loop of syncReminders.
SyncWantsSchedule(row) == ~row.is_completed

NoneInFlight == \A u \in Tasks : tasks[u].op = "idle"

\* One step of task t: t's record becomes rec (or the slot is freed when the
\* invocation has ended); every other invocation in flight has now been
\* interleaved with.
Step(t, rec, finished, api, arg, ok) ==
    /\ tasks' = [u \in Tasks |->
                   IF u = t THEN (IF finished THEN Idle ELSE rec)
                   ELSE IF tasks[u].op # "idle" THEN [tasks[u] EXCEPT !.alone = FALSE]
                   ELSE tasks[u]]
    /\ ev' = [api |-> api, arg |-> arg, ok |-> ok,
              fin |-> IF finished THEN rec ELSE Idle]

NewTask(op, rid) == [Idle EXCEPT !.op = op, !.rid = rid, !.alone = NoneInFlight]

\* A new invocation takes the first free slot (the slots are interchangeable);
\* callers that await each call start one only when none is in flight and the
\* caller of the last one has resumed.
CanStart(t) ==
    /\ tasks[t].op = "idle"
    /\ \A u \in 1..(t - 1) : tasks[u].op # "idle"
    /\ overlap \/ (NoneInFlight /\ ev.fin.op = "idle")

\* The invocation returns to its caller (its locals are gone).
Returned(rec) == [rec EXCEPT !.pc = "done", !.handle = Null, !.idx = 0,
                             !.ret = "returned"]

\* The invocation ends on an error that `catcher` caught ("none": nobody did,
\* the promise rejects).
Ended(rec, catcher) ==
    [rec EXCEPT !.pc = "done", !.handle = Null, !.idx = 0, !.caught = catcher,
                !.ret = IF catcher = "none" THEN "threw" ELSE "returned"]

\* The platform can hand out an identifier.
HandleFree(ok) == ok => nextHandle # Null

(* scheduleReminderNotification(reminder), up to its await (lines 115-135). *)
ScheduleStart(t, r) ==
    /\ CanStart(t)
    /\ LET date == reminders[r].date
           rec == NewTask("schedule", r)
           catcher == Catcher(<<"scheduleReminderNotification", "scheduleNotification">>)
       IN IF ReminderIsPast(date, now)
          THEN /\ Step(t, Returned([rec EXCEPT !.path = "skipped"]), TRUE, "none", Null, TRUE)
               /\ chain' = [stage |-> "scheduled", t |-> t, rid |-> r, outcome |-> "skipped",
                            prior |-> scheduledNotifications[r] # Null, cancels |-> 0]
               /\ UNCHANGED pending
          ELSE \E ok \in BOOLEAN :
               /\ HandleFree(ok)
               /\ pending' = PlatformSchedule(ok, r, date)
               /\ IF ok \/ catcher = "scheduleNotification"
                  THEN \* the identifier, or null from the catch at line 90
                       /\ Step(t, [rec EXCEPT !.pc = "sched_set",
                                       !.handle = IF ok THEN nextHandle ELSE Null,
                                       !.path = IF ok THEN "set" ELSE "failed"],
                               FALSE, "schedule", r, ok)
                       /\ chain' = NoChain
                  ELSE /\ Step(t, Ended(rec, catcher), TRUE, "schedule", r, ok)
                       /\ chain' = [stage |-> "scheduled", t |-> t, rid |-> r,
                                    outcome |-> "failed",
                                    prior |-> scheduledNotifications[r] # Null, cancels |-> 0]
    /\ UNCHANGED <<now, reminders, scheduledNotifications>>
    /\ UNCHANGED <<overlap, listVars, flowVars, screenVars>>

(* scheduleReminderNotification after the await (lines 137-139). *)
ScheduleSet(t) ==
    /\ tasks[t].op = "schedule" /\ tasks[t].pc = "sched_set"
    /\ scheduledNotifications' = MapSet(scheduledNotifications, tasks[t].rid, tasks[t].handle)
    /\ Step(t, Returned(tasks[t]), TRUE, "none", Null, TRUE)
    /\ chain' = [stage |-> "scheduled", t |-> t, rid |-> tasks[t].rid,
                 outcome |-> tasks[t].path,
                 prior |-> scheduledNotifications[tasks[t].rid] # Null, cancels |-> 0]
    /\ UNCHANGED <<now, reminders, pending>>
    /\ UNCHANGED <<overlap, listVars, flowVars, screenVars>>

\* The sequence tracking: a cancel that starts right after a schedule of the same id.
ChainOnCancelStart(t, r, called, finished) ==
    IF chain.stage = "scheduled" /\ chain.rid = r
    THEN [chain EXCEPT !.stage = IF finished THEN "cancelled" ELSE "cancelling",
                       !.t = t, !.cancels = IF called THEN 1 ELSE 0]
    ELSE NoChain

(* cancelReminderNotification(reminderId), up to its await (lines 159-163). *)
CancelStart(t, r) ==
    /\ CanStart(t)
    /\ LET notificationId == scheduledNotifications[r]
           rec == [NewTask("cancel", r) EXCEPT !.handle = notificationId]
           catcher == Catcher(<<"cancelReminderNotification", "cancelNotification">>)
       IN IF notificationId = Null
          THEN /\ Step(t, Returned([rec EXCEPT !.path = "absent"]), TRUE, "none", Null, TRUE)
               /\ chain' = ChainOnCancelStart(t, r, FALSE, TRUE)
               /\ UNCHANGED pending
          ELSE \E ok \in BOOLEAN :
               /\ pending' = PlatformCancel(ok, notificationId)
               /\ IF ok \/ catcher = "cancelNotification"
                  THEN \* an error is caught at line 151: delete() still runs
                       /\ Step(t, [rec EXCEPT !.pc = "cancel_del", !.cancelOk = ok,
                                              !.path = "present"],
                               FALSE, "cancel", notificationId, ok)
                       /\ chain' = ChainOnCancelStart(t, r, TRUE, FALSE)
                  ELSE /\ Step(t, Ended(rec, catcher), TRUE, "cancel", notificationId, ok)
                       /\ chain' = ChainOnCancelStart(t, r, TRUE, TRUE)
    /\ UNCHANGED <<now, reminders, scheduledNotifications>>
    /\ UNCHANGED <<overlap, listVars, flowVars, screenVars>>

(* cancelReminderNotification after the await (line 164). *)
CancelDelete(t) ==
    /\ tasks[t].op = "cancel" /\ tasks[t].pc = "cancel_del"
    /\ scheduledNotifications' = MapDelete(scheduledNotifications, tasks[t].rid)
    /\ Step(t, Returned(tasks[t]), TRUE, "none", Null, TRUE)
    /\ chain' = IF chain.stage = "cancelling" /\ chain.t = t
                THEN [chain EXCEPT !.stage = "cancelled"] ELSE NoChain
    /\ UNCHANGED <<now, reminders, pending>>
    /\ UNCHANGED <<overlap, listVars, flowVars, screenVars>>

(* cancelAllNotifications(), called directly: the platform call (line 176). *)
CancelAllStart(t) ==
    /\ CanStart(t)
    /\ \E ok \in BOOLEAN :
         /\ pending' = PlatformCancelAll(ok)
         /\ LET rec == [NewTask("cancelAll", Null) EXCEPT !.pc = "ca_clear", !.cancelOk = ok]
            IN \* a platform error is caught at line 178: clear() is skipped
               Step(t, IF ok THEN rec ELSE Ended(rec, Catcher(<<"cancelAllNotifications">>)),
                    ~ok, "cancelAll", Null, ok)
    /\ chain' = NoChain
    /\ UNCHANGED <<now, reminders, scheduledNotifications>>
    /\ UNCHANGED <<overlap, listVars, flowVars, screenVars>>

(* cancelAllNotifications(), called directly: after the await (line 177). *)
CancelAllClear(t) ==
    /\ tasks[t].op = "cancelAll" /\ tasks[t].pc = "ca_clear"
    /\ scheduledNotifications' = MapClear(scheduledNotifications)
    /\ Step(t, Returned(tasks[t]), TRUE, "none", Null, TRUE)
    /\ chain' = NoChain
    /\ UNCHANGED <<now, reminders, pending>>
    /\ UNCHANGED <<overlap, listVars, flowVars, screenVars>>

(* initializeNotifications(): requestPermissionsAsync and its outcome (lines 28-39). *)
InitStart(t) ==
    /\ CanStart(t)
    /\ \E outcome \in {"granted", "denied", "throws"} :
         LET rec == [NewTask("init", Null) EXCEPT !.pc = "init_sync"]
             end == IF outcome = "denied" THEN Returned([rec EXCEPT !.path = "denied"])
                    ELSE Ended(rec, Catcher(<<"initializeNotifications">>))
         IN Step(t, IF outcome = "granted" THEN rec ELSE end,
                 outcome # "granted", "permissions", Null, outcome # "throws")
    /\ chain' = NoChain
    /\ UNCHANGED <<now, reminders, scheduledNotifications, pending>>
    /\ UNCHANGED <<overlap, listVars, flowVars, screenVars>>

(* syncReminders(): the fetch of the upcoming reminders (line 201), on its own *)
(* or as the last call of initializeNotifications (line 42).                   *)
SyncFetch(t) ==
    /\ \/ CanStart(t)
       \/ tasks[t].op = "init" /\ tasks[t].pc = "init_sync"
    /\ LET rec == IF tasks[t].op = "idle" THEN NewTask("sync", Null)
                  ELSE [tasks[t] EXCEPT !.op = "sync"]
       IN \/ \* getUpcomingReminders rethrows the backend error
             Step(t, Ended(rec, Catcher(SyncStack)), TRUE, "fetch", Null, FALSE)
          \/ \E rows \in UpcomingOrders(now, SyncHorizonDays) :
               Step(t, [rec EXCEPT !.pc = "sync_cancel", !.fetched = rows, !.idx = 1,
                                   !.path = "fetched"],
                    FALSE, "fetch", Null, TRUE)
    /\ chain' = NoChain
    /\ UNCHANGED <<now, reminders, scheduledNotifications, pending>>
    /\ UNCHANGED <<overlap, listVars, flowVars, screenVars>>

SyncTask(t) == tasks[t].op = "sync"

\* The for-of loop has run out of reminders.
SyncFinished(rec) == rec.idx > Len(rec.fetched)

\* The sync goes on with rec, or returns when its loop is over.
SyncStep(t, rec, api, arg, ok) ==
    Step(t, IF SyncFinished(rec) THEN Returned(rec) ELSE rec, SyncFinished(rec), api, arg, ok)

(* syncReminders(): cancelAllNotifications, the platform call (lines 204, 176). *)
SyncCancelAll(t) ==
    /\ SyncTask(t) /\ tasks[t].pc = "sync_cancel"
    /\ LET catcher == Catcher(SyncStack \o <<"cancelAllNotifications">>)
       IN \E ok \in BOOLEAN :
            /\ pending' = PlatformCancelAll(ok)
            /\ IF ok
               THEN Step(t, [tasks[t] EXCEPT !.cancelOk = TRUE, !.pc = "sync_clear",
                                             !.swept = (pending # {})],
                         FALSE, "cancelAll", Null, ok)
               ELSE IF catcher = "cancelAllNotifications"
               THEN \* caught at line 178: clear() is skipped, the loop runs
                    SyncStep(t, [tasks[t] EXCEPT !.pc = "sync_loop"], "cancelAll", Null, ok)
               ELSE Step(t, Ended(tasks[t], catcher), TRUE, "cancelAll", Null, ok)
    /\ chain' = NoChain
    /\ UNCHANGED <<now, reminders, scheduledNotifications>>
    /\ UNCHANGED <<overlap, listVars, flowVars, screenVars>>

(* syncReminders(): cancelAllNotifications after its await (line 177). *)
SyncClear(t) ==
    /\ SyncTask(t) /\ tasks[t].pc = "sync_clear"
    /\ scheduledNotifications' = MapClear(scheduledNotifications)
    /\ SyncStep(t, [tasks[t] EXCEPT !.pc = "sync_loop"], "none", Null, TRUE)
    /\ chain' = NoChain
    /\ UNCHANGED <<now, reminders, pending>>
    /\ UNCHANGED <<overlap, listVars, flowVars, screenVars>>

(* syncReminders(): one turn of the loop up to the await inside               *)
(* scheduleReminderNotification (lines 207-210, 115-135).                     *)
SyncLoop(t) ==
    /\ SyncTask(t) /\ tasks[t].pc = "sync_loop" /\ ~SyncFinished(tasks[t])
    /\ LET row == tasks[t].fetched[tasks[t].idx]
           next == [tasks[t] EXCEPT !.idx = SyncNextIdx(tasks[t].idx)]
           called == [tasks[t] EXCEPT !.calls = Append(@, row.id)]
           catcher == Catcher(SyncStack
                              \o <<"scheduleReminderNotification", "scheduleNotification">>)
       IN IF ~SyncWantsSchedule(row)
          THEN /\ SyncStep(t, next, "none", Null, TRUE)
               /\ UNCHANGED pending
          ELSE IF ReminderIsPast(row.date, now)
          THEN /\ SyncStep(t, [called EXCEPT !.idx = SyncNextIdx(tasks[t].idx)],
                           "none", Null, TRUE)
               /\ UNCHANGED pending
          ELSE \E ok \in BOOLEAN :
               /\ HandleFree(ok)
               /\ pending' = PlatformSchedule(ok, row.id, row.date)
               /\ LET failed == [called EXCEPT
                                   !.firstFail = IF @ = 0 THEN tasks[t].idx ELSE @]
                  IN IF ok
                     THEN Step(t, [called EXCEPT !.pc = "sync_set", !.rid = row.id,
                                                 !.handle = nextHandle],
                               FALSE, "schedule", row.id, ok)
                     ELSE IF catcher = "scheduleNotification"
                     THEN \* null from the catch at line 90
                          Step(t, [failed EXCEPT !.pc = "sync_set", !.rid = row.id,
                                                 !.handle = Null],
                               FALSE, "schedule", row.id, ok)
                     ELSE IF catcher = "scheduleReminderNotification"
                     THEN \* caught at line 140: on to the next reminder
                          SyncStep(t, [failed EXCEPT !.idx = SyncNextIdx(tasks[t].idx)],
                                   "schedule", row.id, ok)
                     ELSE \* caught at line 214 or later: the loop is left
                          Step(t, Ended(failed, catcher), TRUE, "schedule", row.id, ok)
    /\ chain' = NoChain
    /\ UNCHANGED <<now, reminders, scheduledNotifications>>
    /\ UNCHANGED <<overlap, listVars, flowVars, screenVars>>

(* syncReminders(): scheduleReminderNotification after its await (lines       *)
(* 137-139), then on to the next reminder.                                    *)
SyncSet(t) ==
    /\ SyncTask(t) /\ tasks[t].pc = "sync_set"
    /\ scheduledNotifications' = MapSet(scheduledNotifications, tasks[t].rid, tasks[t].handle)
    /\ SyncStep(t, [tasks[t] EXCEPT !.pc = "sync_loop", !.handle = Null,
                                    !.idx = SyncNextIdx(tasks[t].idx)],
                "none", Null, TRUE)
    /\ chain' = NoChain
    /\ UNCHANGED <<now, reminders, pending>>
    /\ UNCHANGED <<overlap, listVars, flowVars, screenVars>>

(* sendImmediateNotification(payload): scheduleLocalNotification(payload, 1);  *)
(* nothing is done with the result, so the whole call is one step.             *)
SendImmediate(t) ==
    /\ CanStart(t)
    /\ \E ok \in BOOLEAN :
         /\ HandleFree(ok)
         /\ pending' = PlatformSchedule(ok, NoReminder, now + ImmediateDelaySeconds)
         /\ LET rec == NewTask("immediate", Null)
                catcher == Catcher(<<"sendImmediateNotification",
                                     "scheduleLocalNotification", "scheduleNotification">>)
            IN Step(t, IF ok THEN Returned([rec EXCEPT !.path = "set"])
                       ELSE Ended(rec, catcher),
                    TRUE, "schedule", NoReminder, ok)
    /\ chain' = NoChain
    /\ UNCHANGED <<now, reminders, scheduledNotifications>>
    /\ UNCHANGED <<overlap, listVars, flowVars, screenVars>>

(* Time passes; due notifications are delivered. *)
Tick ==
    /\ now < MaxNow
    /\ now' = now + 1
    /\ pending' = StillPending(now + 1)
    /\ ev' = NoEvent
    /\ UNCHANGED <<reminders, scheduledNotifications, tasks, chain>>
    /\ UNCHANGED <<overlap, listVars, flowVars, screenVars>>

\* handleSyncReminders of the Settings screen, once its await of syncReminders
\* has settled: the alert it shows (SettingsScreen.tsx lines 38-46).
SyncAlert(fin) ==
    IF fin.ret = "threw" THEN <<"Error", "Failed to sync reminders">>
    ELSE <<"Success", "Reminders synced successfully">>

(* The caller that awaited the invocation just ended resumes after its await. *)
Resume ==
    /\ ev.fin.op # "idle"
    /\ ev' = NoEvent
    /\ chain' = IF chain.stage = "cancelled" THEN NoChain ELSE chain
    /\ UNCHANGED <<now, reminders, scheduledNotifications, pending, tasks>>
    /\ UNCHANGED <<overlap, listVars, flowVars, screenVars>>

(* The process is restarted: the singleton is constructed anew (line 23), the  *)
(* invocations in flight are gone, the platform keeps what it has scheduled.   *)
Restart ==
    /\ scheduledNotifications' = [r \in RIDs |-> Null]
    /\ tasks' = [t \in Tasks |-> Idle]
    /\ ev' = NoEvent
    /\ chain' = NoChain
    /\ UNCHANGED <<now, reminders, pending>>
    /\ UNCHANGED <<overlap, listVars, flowVars, screenVars>>

(* ------------------------------ strings -------------------------------- *)
\* A string is the sequence of its characters.  Undefined stands for a missing
\* scalar (undefined / null), NullStr for a missing string or array.
Undefined == "undefined"
NullStr == <<Undefined>>

LowerChar(c) == IF c = "A" THEN "a" ELSE IF c = "B" THEN "b" ELSE c

\* String.prototype.toLowerCase
toLowerCase(s) == IF s = <<>> THEN <<>> ELSE [i \in 1..Len(s) |-> LowerChar(s[i])]

\* String.prototype.includes
includes(s, sub) ==
    \E i \in 0..(Len(s) - Len(sub)) : SubSeq(s, i + 1, i + Len(sub)) = sub

\* obj?.name
OptName(obj) == IF obj.present THEN obj.name ELSE NullStr

\* s?.toLowerCase()
OptLower(s) == IF s = NullStr THEN NullStr ELSE toLowerCase(s)

\* s || ''
OrEmpty(s) == IF s = NullStr \/ s = <<>> THEN <<>> ELSE s

\* JavaScript truthiness of an optional scalar string, and of an optional string.
Truthy(v) == v # Undefined /\ v # ""
TruthyStr(s) == s # NullStr /\ s # <<>>

\* SQL LIKE matching of s against pattern p, letters compared without case
\* (ILIKE): % stands for any run of characters, _ for any one character.
RECURSIVE LikeMatch(_, _)
LikeMatch(s, p) ==
    IF p = <<>> THEN s = <<>>
    ELSE IF Head(p) = "%"
         THEN LikeMatch(s, Tail(p)) \/ (s # <<>> /\ LikeMatch(Tail(s), p))
         ELSE /\ s # <<>>
              /\ (Head(p) = "_" \/ LowerChar(Head(p)) = LowerChar(Head(s)))
              /\ LikeMatch(Tail(s), Tail(p))

\* column ILIKE pattern; a NULL column matches nothing.
ILike(col, p) == col # NullStr /\ LikeMatch(col, p)

(* ------------------------ EnquiryListScreen search --------------------- *)
SearchMatchesCaseSensitive(enquiry, lowerTerm) ==
    \/ includes(OrEmpty(OptName(enquiry.company)), lowerTerm)
    \/ includes(OrEmpty(OptName(enquiry.contact)), lowerTerm)
    \/ includes(OrEmpty(enquiry.product_interest), lowerTerm)

\* The callback of data.filter in applySearch.
SearchMatches(enquiry, lowerTerm) ==
    LET company == OrEmpty(OptLower(OptName(enquiry.company)))
        contact == OrEmpty(OptLower(OptName(enquiry.contact)))
        product == OrEmpty(OptLower(enquiry.product_interest))
    IN includes(company, lowerTerm) \/ includes(contact, lowerTerm)
          \/ includes(product, lowerTerm)

ApplySearchEmptyShowsNone(data, term) ==
    IF term = <<>> THEN <<>>
    ELSE SelectSeq(data, LAMBDA enquiry : SearchMatches(enquiry, toLowerCase(term)))

\* applySearch: the list it passes to setFilteredEnquiries.
ApplySearch(data, term) ==
    IF term = <<>> THEN data
    ELSE SelectSeq(data, LAMBDA enquiry : SearchMatches(enquiry, toLowerCase(term)))

\* The search box changes (onChangeText = setSearchTerm) and the effect on
\* [searchTerm, enquiries] runs applySearch.
SetSearchTerm(term) ==
    /\ term # searchTerm
    /\ searchTerm' = term
    /\ filteredEnquiries' = ApplySearch(enquiries, term)
    /\ UNCHANGED <<enqTable, query, enquiries, notifVars, flowVars, screenVars>>

(* ---------------------- SupabaseService.getEnquiries ------------------- *)
\* enquiry_date is a DATE column; the day number of a date literal.
DayOf(d) == IF d = "2024-01-01" THEN 1 ELSE 2

\* No filters argument.
NoFilters == [given |-> FALSE, status |-> NullStr, owner |-> Undefined,
              dateFrom |-> Undefined, dateTo |-> Undefined,
              productInterest |-> NullStr, companyId |-> Undefined]

NoQuery == [caller |-> "none", filters |-> NoFilters, limit |-> 0, offset |-> 0,
            state |-> "none", data |-> <<>>]

\* The filters the query builder adds for the filter set f, as a row predicate.
RowPasses(row, f) ==
    f.given =>
       /\ (f.status # NullStr /\ Len(f.status) > 0) => row.status \in Range(f.status)
       /\ Truthy(f.owner) => row.owner = f.owner
       /\ Truthy(f.dateFrom) => DayOf(row.enquiry_date) >= DayOf(f.dateFrom)
       /\ Truthy(f.dateTo) => DayOf(row.enquiry_date) <= DayOf(f.dateTo)
       /\ TruthyStr(f.productInterest) =>
             ILike(row.product_interest, <<"%">> \o f.productInterest \o <<"%">>)
       /\ Truthy(f.companyId) => row.company_id = f.companyId

\* order('enquiry_date', { ascending: false }): the orders the backend may give
\* the rows of ids S (rows of one date come in any order).
DescOrders(table, S) ==
    {o \in [1..Cardinality(S) -> S] :
       /\ \A i, j \in 1..Cardinality(S) : i < j =>
             /\ o[i] # o[j]
             /\ DayOf(table[o[i]].enquiry_date) >= DayOf(table[o[j]].enquiry_date)}

\* range(offset, offset + limit - 1)
Window(rows, limit, offset) ==
    SubSeq(rows, offset + 1, IF offset + limit < Len(rows) THEN offset + limit ELSE Len(rows))

\* The backend answers the getEnquiries call in flight: the rows, or an error
\* that getEnquiries rethrows.
GetEnquiries ==
    /\ query.state = "sent"
    /\ \E ok \in BOOLEAN :
         IF ok
         THEN \E o \in DescOrders(enqTable,
                         {i \in 1..Len(enqTable) : RowPasses(enqTable[i], query.filters)}) :
                 query' = [query EXCEPT
                             !.state = "done",
                             !.data = Window([i \in 1..Len(o) |-> enqTable[o[i]]],
                                             query.limit, query.offset)]
         ELSE query' = [query EXCEPT !.state = "failed"]
    /\ UNCHANGED <<enqTable, enquiries, searchTerm, filteredEnquiries, notifVars, flowVars, screenVars>>

\* loadEnquiries after its await: setEnquiries(data); applySearch(data, searchTerm).
\* After a throw the catch block leaves both lists as they were.
LoadEnquiries ==
    /\ query.caller = "list"
    /\ query.state \in {"done", "failed"}
    /\ query' = [query EXCEPT !.state = "handled"]
    /\ IF query.state = "done"
       THEN /\ enquiries' = query.data
            /\ filteredEnquiries' = ApplySearch(query.data, searchTerm)
       ELSE UNCHANGED <<enquiries, filteredEnquiries>>
    /\ UNCHANGED <<enqTable, searchTerm, notifVars, flowVars, screenVars>>

(* ------------------------------- export -------------------------------- *)
\* In the export part a row of `enquiries` stands for `copies` stored enquiries
\* with the same columns, and so does a row of every list derived from it.
RECURSIVE RowCount(_)
RowCount(groups) ==
    IF groups = <<>> THEN 0 ELSE Head(groups).copies + RowCount(Tail(groups))

\* The first n rows of a list of groups.
RECURSIVE TakeRows(_, _)
TakeRows(groups, n) ==
    IF groups = <<>> \/ n <= 0 THEN <<>>
    ELSE IF Head(groups).copies <= n
         THEN <<Head(groups)>> \o TakeRows(Tail(groups), n - Head(groups).copies)
         ELSE <<[Head(groups) EXCEPT !.copies = n]>>

\* The list of groups without its first n rows.
RECURSIVE SkipRows(_, _)
SkipRows(groups, n) ==
    IF groups = <<>> \/ n <= 0 THEN groups
    ELSE IF Head(groups).copies <= n
         THEN SkipRows(Tail(groups), n - Head(groups).copies)
         ELSE <<[Head(groups) EXCEPT !.copies = Head(groups).copies - n]>> \o Tail(groups)

\* range(offset, offset + limit - 1) on a list of groups.
WindowOfGroups(groups, limit, offset) == TakeRows(SkipRows(groups, offset), limit)

\* What getEnquiries(filters, limit, offset) may return from the table `table`.
EnquiriesReturned(table, f, limit, offset) ==
    {WindowOfGroups([i \in 1..Len(o) |-> table[o[i]]], limit, offset) :
        o \in DescOrders(table, {i \in 1..Len(table) : RowPasses(table[i], f)})}

\* .single() finds no row (PGRST116): the lookups return null.
NoRow == [id |-> Undefined]

\* getCompanyById / getContactById when the backend answers.
RowById(table, id) ==
    IF \E row \in table : row.id = id THEN CHOOSE row \in table : row.id = id ELSE NoRow

\* The object literal that getEnquiriesForExport builds for one enquiry.
ExportRow(enquiry, company, contact) ==
    [company_name |-> IF company = NoRow THEN "" ELSE company.name,
     contact_name |-> IF contact = NoRow THEN Undefined ELSE contact.name,
     contact_email |-> IF contact = NoRow THEN Undefined ELSE contact.email,
     contact_phone |-> IF contact = NoRow THEN Undefined ELSE contact.phone,
     status |-> enquiry.status,
     product_interest |-> enquiry.product_interest,
     estimated_value |-> enquiry.estimated_value,
     enquiry_date |-> enquiry.enquiry_date,
     next_follow_up |-> enquiry.next_follow_up,
     notes |-> enquiry.notes,
     owner |-> enquiry.owner,
     copies |-> enquiry.copies]

\* enquiries.map(...) once every lookup has resolved.
ExportData(fetched) ==
    [i \in 1..Len(fetched) |->
        ExportRow(fetched[i], RowById(companies, fetched[i].company_id),
                  IF Truthy(fetched[i].contact_id)
                  THEN RowById(contacts, fetched[i].contact_id) ELSE NoRow)]

\* The keys of the object literal, in the order it lists them.
ExportKeys == <<"company_name", "contact_name", "contact_email", "contact_phone",
                "status", "product_interest", "estimated_value", "enquiry_date",
                "next_follow_up", "notes", "owner">>

\* Papa.unparse writes '' for undefined; XLSX.utils.json_to_sheet writes no cell.
Cell(format, value) == IF value = Undefined /\ format = "csv" THEN "" ELSE value

\* Papa.unparse(data) / json_to_sheet(data): the columns are the keys of the
\* objects, a line per object.
Serialise(format, data) ==
    [header |-> IF data = <<>> THEN <<>> ELSE ExportKeys,
     rows |-> [i \in 1..Len(data) |->
                 [cells |-> [k \in 1..Len(ExportKeys) |-> Cell(format, data[i][ExportKeys[k]])],
                  copies |-> data[i].copies]]]

NoFile == [header |-> <<"none">>, rows |-> <<>>]

RethrownButLookups == {"getEnquiries", "getEnquiriesForExport", "exportToCSV",
                       "exportToExcel", "exportEnquiries"}

\* The methods of the export whose catch block ends in `throw error`.
Rethrown == {"getEnquiries", "getCompanyById", "getContactById",
             "getEnquiriesForExport", "exportToCSV", "exportToExcel", "exportEnquiries"}

\* What reaches handleExport when an error is thrown at the top of the call
\* stack: the error, or the normal return of the method that kept it.
Thrown(stack) == IF \A i \in 1..Len(stack) : stack[i] \in Rethrown THEN "error" ELSE "swallowed"

ShareAlways(available) == TRUE

\* `if (await Sharing.isAvailableAsync())`
ShareWanted(available) == available

\* exportToCSV for 'csv', exportToExcel for 'xlsx'.
Exporter(format) == IF format = "csv" THEN "exportToCSV" ELSE "exportToExcel"

\* handleExport has its answer: a file URI (setError(null)), or the catch block
\* (setError(message)); a swallowed error shows as a return without URI.
ExportEnds(rec, step, stack) ==
    [rec EXCEPT !.pc = "done", !.failedAt = step,
                !.result = IF step = "none" THEN "uri"
                           ELSE IF Thrown(stack) = "error" THEN "error" ELSE "null",
                !.error = IF step # "none" /\ Thrown(stack) = "error" THEN "Export failed"
                          ELSE Undefined]

NoExport == [pc |-> "idle", format |-> "csv", filters |-> NoFilters, fetched |-> <<>>,
             data |-> <<>>, file |-> NoFile, available |-> "unknown", shareCalls |-> 0,
             failedAt |-> "none", result |-> Undefined, error |-> Undefined]

(* handleExport(format): getEnquiriesForExport(filters) calls                 *)
(* getEnquiries(filters, 1000, 0) (part_002 lines 496-499, line 629).         *)
ExportStart(format, f) ==
    /\ exp.pc \in {"idle", "done"}
    /\ exp' = [NoExport EXCEPT !.pc = "fetch", !.format = format, !.filters = f]
    /\ UNCHANGED <<companies, contacts, ai, db, form, listVars, notifVars, screenVars>>

(* The backend answers getEnquiries; the lookups of every enquiry are started *)
(* (lines 629-636).                                                           *)
ExportFetch ==
    /\ exp.pc = "fetch"
    /\ \/ exp' = ExportEnds(exp, "fetch", <<"getEnquiriesForExport", "getEnquiries">>)
       \/ \E rows \in EnquiriesReturned(enqTable, exp.filters, ExportLimit, 0) :
             exp' = [exp EXCEPT !.pc = "lookups", !.fetched = rows]
    /\ UNCHANGED <<companies, contacts, ai, db, form, listVars, notifVars, screenVars>>

(* Promise.all over the lookups settles; on success the export rows are built *)
(* and exportEnquiries picks the exporter, which serialises the rows and      *)
(* starts the file write (lines 631-653; index.ts lines 96-106, 31-40, 57-73).*)
ExportLookups ==
    /\ exp.pc = "lookups"
    /\ \/ /\ exp.fetched # <<>>
          /\ exp' = ExportEnds(exp, "lookup", <<"getEnquiriesForExport", "getCompanyById">>)
       \/ /\ \E i \in 1..Len(exp.fetched) : Truthy(exp.fetched[i].contact_id)
          /\ exp' = ExportEnds(exp, "lookup", <<"getEnquiriesForExport", "getContactById">>)
       \/ LET rec == [exp EXCEPT !.data = ExportData(exp.fetched)]
          IN IF exp.format \notin {"csv", "xlsx"}
             THEN exp' = ExportEnds(rec, "format", <<"exportEnquiries">>)
             ELSE \/ exp' = ExportEnds(rec, "serialise",
                                       <<"exportEnquiries", Exporter(exp.format)>>)
                  \/ exp' = [rec EXCEPT !.pc = "write"]
    /\ UNCHANGED <<companies, contacts, ai, db, form, listVars, notifVars, screenVars>>

(* FileSystem.writeAsStringAsync settles (index.ts lines 38-40, 71-73).       *)
ExportWrite ==
    /\ exp.pc = "write"
    /\ \/ exp' = ExportEnds(exp, "write", <<"exportEnquiries", Exporter(exp.format)>>)
       \/ exp' = [exp EXCEPT !.pc = "avail", !.file = Serialise(exp.format, exp.data)]
    /\ UNCHANGED <<companies, contacts, ai, db, form, listVars, notifVars, screenVars>>

(* Sharing.isAvailableAsync settles; the file is shared if it said yes, else  *)
(* the URI is returned (index.ts lines 43-47, 76-80).                         *)
ExportAvail ==
    /\ exp.pc = "avail"
    /\ \E answer \in {"yes", "no", "throws"} :
         IF answer = "throws"
         THEN exp' = ExportEnds(exp, "avail", <<"exportEnquiries", Exporter(exp.format)>>)
         ELSE LET rec == [exp EXCEPT !.available = answer]
              IN IF ShareWanted(answer = "yes")
                 THEN exp' = [rec EXCEPT !.pc = "share", !.shareCalls = exp.shareCalls + 1]
                 ELSE exp' = ExportEnds(rec, "none", <<>>)
    /\ UNCHANGED <<companies, contacts, ai, db, form, listVars, notifVars, screenVars>>

(* Sharing.shareAsync settles (index.ts lines 44-47, 77-80).                  *)
ExportShare ==
    /\ exp.pc = "share"
    /\ \/ exp' = ExportEnds(exp, "share", <<"exportEnquiries", Exporter(exp.format)>>)
       \/ exp' = ExportEnds(exp, "none", <<>>)
    /\ UNCHANGED <<companies, contacts, ai, db, form, listVars, notifVars, screenVars>>

(* ======================= AIEmailService (part_004) ====================== *)
\* A generated text is a list of runs: run [ch, n] stands for n consecutive
\* characters ch.
RECURSIVE Length(_)
Length(content) ==
    IF content = <<>> THEN 0 ELSE Head(content).n + Length(Tail(content))

\* The white space that String.prototype.trim removes.
IsWhiteSpace(ch) == ch \in {" ", "\n"}

RECURSIVE trimStart(_)
trimStart(content) ==
    IF content # <<>> /\ IsWhiteSpace(Head(content).ch) THEN trimStart(Tail(content))
    ELSE content

RECURSIVE trimEnd(_)
trimEnd(content) ==
    IF content # <<>> /\ IsWhiteSpace(content[Len(content)].ch)
    THEN trimEnd(SubSeq(content, 1, Len(content) - 1))
    ELSE content

trimNothing(content) == content

\* String.prototype.trim
trim(content) == trimEnd(trimStart(content))

\* `.` of a regular expression matches every character but a line terminator.
Dot(ch) == ch # "\n"

\* The text has `width` consecutive characters ch that end in run i / start in
\* run i.
EndsIn(content, i, ch, width) ==
    /\ content[i].ch = ch
    /\ \/ content[i].n >= width
       \/ i > 1 /\ content[i - 1].ch = ch
StartsIn(content, i, ch, width) ==
    /\ content[i].ch = ch
    /\ \/ content[i].n >= width
       \/ i < Len(content) /\ content[i + 1].ch = ch

\* RegExp.prototype.test for open .*? close, where open and close are `width`
\* copies of a bracket character.
Test(open, close, width, content) ==
    \E i, j \in 1..Len(content) :
       /\ i < j
       /\ EndsIn(content, i, open, width)
       /\ StartsIn(content, j, close, width)
       /\ \A k \in (i + 1)..(j - 1) : Dot(content[k].ch)

\* placeholderPatterns: /\[.*?\]/g, /\{.*?\}/g, /{{.*?}}/g
placeholderPatterns == <<[open |-> "[", close |-> "]", width |-> 1],
                         [open |-> "{", close |-> "}", width |-> 1],
                         [open |-> "{", close |-> "}", width |-> 2]>>

\* validateResponse(content)
validateResponse(content) ==
    IF content = <<>> \/ Length(trim(content)) = 0
    THEN [isValid |-> FALSE, message |-> "Generated content is empty"]
    ELSE IF Length(trim(content)) < MinContentLength
    THEN [isValid |-> FALSE, message |-> "Generated content is too short"]
    ELSE IF Length(content) > MaxContentLength
    THEN [isValid |-> FALSE, message |-> "Generated content is too long"]
    ELSE IF \E p \in 1..Len(placeholderPatterns) :
               Test(placeholderPatterns[p].open, placeholderPatterns[p].close,
                    placeholderPatterns[p].width, content)
    THEN [isValid |-> FALSE,
          message |-> "Generated content contains unresolved placeholders"]
    ELSE [isValid |-> TRUE, message |-> "Content validation passed"]

(* A caller has passed `ai.content` to validateResponse; it returns.          *)
ValidateResponse ==
    /\ ai.pc = "validateResponse"
    /\ ai' = [pc |-> "validated", content |-> ai.content,
              validation |-> validateResponse(ai.content)]
    /\ UNCHANGED <<companies, contacts, exp, db, form, listVars, notifVars, screenVars>>

\* The keys of EMAIL_TEMPLATES (EmailComposeScreen.tsx lines 602-705).
EMAIL_TEMPLATES == {"initial_response", "quotation_followup", "reminder_email",
                    "deal_closing", "re_engagement"}

NotConfiguredNever(apiKey) == FALSE

\* `if (!GEMINI_CONFIG.apiKey)`
NotConfigured(apiKey) == ~apiKey

\* `if (!template)` for template = EMAIL_TEMPLATES[context.template_type]
NoTemplate(template_type) == template_type \notin EMAIL_TEMPLATES

\* The methods that look the template up before they generate.
UsesTemplate(method) == method \in {"generateEmail", "generateEmailBody"}

\* The service method that a caller's method runs.
ServiceMethod(method) == IF method = "handleGenerateEmail" THEN "generateEmail" ELSE method

\* The prefix that the catch block of a service method puts before the message.
FailedTo(method) ==
    IF method = "generateEmail" THEN "Failed to generate email: "
    ELSE IF method = "generateEmailSubject" THEN "Failed to generate subject: "
    ELSE "Failed to generate body: "

KeyNotConfigured == "Google Generative AI Key not configured. Please set EXPO_PUBLIC_GEMINI_API_KEY in your .env file."
UnknownTemplate == "Unknown email template: "

\* A subject is a list of characters.  String.prototype.trim on it:
RECURSIVE trimChars(_)
trimChars(str) ==
    IF str # <<>> /\ IsWhiteSpace(Head(str)) THEN trimChars(Tail(str))
    ELSE IF str # <<>> /\ IsWhiteSpace(str[Len(str)])
    THEN trimChars(SubSeq(str, 1, Len(str) - 1))
    ELSE str

IsQuote(ch) == ch \in {"\"", "'"}

\* subject.replace(/^["']|["']$/g, '')
StripQuotes(str) ==
    LET rest == IF str # <<>> /\ IsQuote(Head(str)) THEN Tail(str) ELSE str
    IN IF rest # <<>> /\ IsQuote(rest[Len(rest)]) THEN SubSeq(rest, 1, Len(rest) - 1)
       ELSE rest

AcceptedAlways(validation) == TRUE

\* `if (!validation.isValid) throw ...`
Accepted(validation) == validation.isValid

NoResult == [kind |-> "none"]

\* What a service method hands to its caller: a value, or the error its catch
\* block throws.
Returns(value) == [kind |-> "value", value |-> value]
Throws(method, message) == [kind |-> "error", message |-> <<FailedTo(method)>> \o message]

\* The start of a service method up to its first await of generateContent:
\* the call is made unless a check throws (lines 35-57, 84-93, 109-129).
ServiceStart(rec, method, template_type) ==
    LET started == [rec EXCEPT !.method = method, !.template = template_type,
                               !.calls = 0, !.genBody = <<>>, !.result = NoResult]
    IN IF NotConfigured(rec.apiKey)
       THEN [started EXCEPT !.result = Throws(ServiceMethod(method), <<KeyNotConfigured>>)]
       ELSE IF UsesTemplate(ServiceMethod(method)) /\ NoTemplate(template_type)
       THEN [started EXCEPT !.result =
                Throws(ServiceMethod(method), <<UnknownTemplate, template_type>>)]
       ELSE [started EXCEPT !.calls = 1,
                            !.pc = IF ServiceMethod(method) = "generateEmailSubject"
                                   THEN "subject" ELSE "body"]

\* handleGenerateEmail once generateEmail has settled, if it has (lines 94-111).
ScreenEnds(rec) ==
    IF rec.method # "handleGenerateEmail" \/ rec.result.kind = "none" THEN rec
    ELSE IF rec.result.kind = "error"
    THEN [rec EXCEPT !.error = rec.result.message, !.generating = FALSE]
    ELSE IF ~Accepted(validateResponse(rec.result.value.body))
    THEN [rec EXCEPT !.error = <<"Generated content validation failed: ",
                                 validateResponse(rec.result.value.body).message>>,
                     !.generating = FALSE]
    ELSE [rec EXCEPT !.emailSubject = rec.result.value.subject,
                     !.emailBody = rec.result.value.body,
                     !.editMode = TRUE, !.generating = FALSE]

(* The Generate button: handleGenerateEmail up to the first await inside      *)
(* generateEmail, or to its end when a check throws (lines 76-94, 105-111).   *)
HandleGenerateEmail ==
    /\ ai.pc = "idle"
    /\ IF ~ai.loaded
       THEN ai' = [ai EXCEPT !.method = "handleGenerateEmail", !.calls = 0,
                             !.template = ai.selectedTemplate, !.genBody = <<>>,
                             !.result = NoResult,
                             !.error = <<"Missing required data">>, !.generating = FALSE]
       ELSE ai' = ScreenEnds(ServiceStart([ai EXCEPT !.generating = TRUE, !.error = NullStr],
                                          "handleGenerateEmail", ai.selectedTemplate))
    /\ UNCHANGED <<companies, contacts, exp, db, form, listVars, notifVars, screenVars>>

(* Another caller invokes one of the three generation methods.               *)
CallService(method, template_type) ==
    /\ ai.pc = "idle"
    /\ ai' = ServiceStart(ai, method, template_type)
    /\ UNCHANGED <<companies, contacts, exp, db, form, listVars, notifVars, screenVars>>

BodyGeneratedBatched(text) ==
    /\ ai.pc = "body"
    /\ \/ ai' = ScreenEnds([ai EXCEPT !.pc = "idle",
                               !.result = Throws(ServiceMethod(ai.method), <<"generateContent failed">>)])
       \/ IF ServiceMethod(ai.method) = "generateEmailBody"
          THEN ai' = [ai EXCEPT !.pc = "idle", !.result = Returns(trim(text))]
          ELSE ai' = ScreenEnds([ai EXCEPT !.pc = "idle",
                                    !.result = Returns([subject |-> <<>>, body |-> trim(text)])])
    /\ UNCHANGED <<companies, contacts, exp, db, form, listVars, notifVars, screenVars>>

(* The generateContent call for the body settles (lines 56-63, 124-130).      *)
BodyGenerated(text) ==
    /\ ai.pc = "body"
    /\ \/ ai' = ScreenEnds([ai EXCEPT !.pc = "idle",
                               !.result = Throws(ServiceMethod(ai.method), <<"generateContent failed">>)])
       \/ IF ServiceMethod(ai.method) = "generateEmailBody"
          THEN ai' = [ai EXCEPT !.pc = "idle", !.result = Returns(trim(text))]
          ELSE ai' = [ai EXCEPT !.pc = "subject", !.genBody = text, !.calls = ai.calls + 1]
    /\ UNCHANGED <<companies, contacts, exp, db, form, listVars, notifVars, screenVars>>

(* The generateContent call for the subject settles (lines 63-71, 91-97).     *)
SubjectGenerated(text) ==
    /\ ai.pc = "subject"
    /\ \/ ai' = ScreenEnds([ai EXCEPT !.pc = "idle",
                               !.result = Throws(ServiceMethod(ai.method), <<"generateContent failed">>)])
       \/ IF ServiceMethod(ai.method) = "generateEmailSubject"
          THEN ai' = [ai EXCEPT !.pc = "idle", !.result = Returns(StripQuotes(trimChars(text)))]
          ELSE ai' = ScreenEnds([ai EXCEPT !.pc = "idle",
                                    !.result = Returns([subject |-> StripQuotes(trimChars(text)),
                                                        body |-> trim(ai.genBody)])])
    /\ UNCHANGED <<companies, contacts, exp, db, form, listVars, notifVars, screenVars>>

(* A template card is pressed (EmailComposeScreen.tsx lines 241-246).         *)
SelectTemplate(template_type) ==
    /\ ai' = [ai EXCEPT !.selectedTemplate = template_type, !.emailSubject = <<>>,
                        !.emailBody = <<>>, !.editMode = FALSE]
    /\ UNCHANGED <<companies, contacts, exp, db, form, listVars, notifVars, screenVars>>

(* The subject or body input is edited, or edit mode switched (lines 298,     *)
(* 306, 332, 352); the inputs show once there is a body, in edit mode.        *)
SetEmailSubject(text) ==
    /\ ai.emailBody # <<>> /\ ai.editMode
    /\ ai' = [ai EXCEPT !.emailSubject = text]
    /\ UNCHANGED <<companies, contacts, exp, db, form, listVars, notifVars, screenVars>>

SetEmailBody(text) ==
    /\ ai.emailBody # <<>> /\ ai.editMode
    /\ ai' = [ai EXCEPT !.emailBody = text]
    /\ UNCHANGED <<companies, contacts, exp, db, form, listVars, notifVars, screenVars>>

SetEditMode(mode) ==
    /\ ai.emailBody # <<>>
    /\ ai' = [ai EXCEPT !.editMode = mode]
    /\ UNCHANGED <<companies, contacts, exp, db, form, listVars, notifVars, screenVars>>

(* =================== SupabaseService: the operations ==================== *)
\* The operations with one backend query, by what they return.
ListOps == {"getCompanies", "searchCompanies", "getContactsByCompanyId", "getEnquiries",
            "getEnquiriesByCompanyId", "getEmailDraftsByEnquiryId",
            "getRemindersByEnquiryId", "getUpcomingReminders"}       \* data || []
ByIdOps == {"getCompanyById", "getContactById", "getEnquiryById"}    \* data || null
RowOps == {"createCompany", "updateCompany", "createContact", "updateContact",
           "createEnquiry", "updateEnquiry", "createEmailDraft", "updateEmailDraft",
           "createReminder", "updateReminder"}                       \* data
VoidOps == {"deleteCompany", "deleteContact", "deleteEnquiry", "deleteEmailDraft",
            "deleteReminder"}                                        \* nothing

\* A backend answer { data, error }: error is "none" (null) or the error code;
\* "rejected" stands for an awaited query that throws.
Reply(data, error) == [data |-> data, error |-> error]

ToleratedNever(error) == FALSE

\* `error.code !== 'PGRST116'` negated: the row-not-found code of .single().
Tolerated(error) == error = "PGRST116"

\* `if (error) throw error` / `if (error && error.code !== 'PGRST116') throw error`
\* and an awaited query that throws.
ThrowsOn(op, error) ==
    /\ error # "none"
    /\ ~(op \in ByIdOps /\ Tolerated(error))

\* `data` of an answer without data: null.
NoData(op) ==
    IF op \in ByIdOps THEN NoRow
    ELSE IF op \in ListOps \cup {"getDashboardSummary"} THEN NullStr
    ELSE Undefined

\* The value an operation with one query returns for the answer `reply`.
ReturnOf(op, reply) ==
    IF op \in ListOps THEN (IF reply.data = NoData(op) THEN <<>> ELSE reply.data)
    ELSE IF op \in ByIdOps THEN reply.data
    ELSE IF op \in RowOps THEN reply.data
    ELSE Undefined

\* The table an operation by id reads.
TableOf(op) ==
    IF op = "getCompanyById" THEN companies
    ELSE IF op = "getContactById" THEN contacts
    ELSE {enqTable[i] : i \in 1..Len(enqTable)}

\* enquiries.filter((e) => e.status === status).length
CountStatus(rows, status) == Cardinality({i \in 1..Len(rows) : rows[i].status = status})

\* enquiries.reduce((sum, e) => sum + (e.estimated_value || 0), 0)
RECURSIVE SumValues(_)
SumValues(rows) ==
    IF rows = <<>> THEN 0 ELSE Head(rows).estimated_value + SumValues(Tail(rows))

\* The summary object built from the first query of getDashboardSummary.
Summary(rows) ==
    [total_enquiries |-> Len(rows),
     new_count |-> CountStatus(rows, "new"),
     in_progress_count |-> CountStatus(rows, "in_progress"),
     quoted_count |-> CountStatus(rows, "quoted"),
     won_count |-> CountStatus(rows, "won"),
     lost_count |-> CountStatus(rows, "lost"),
     on_hold_count |-> CountStatus(rows, "on_hold"),
     upcoming_followups |-> 0,
     total_estimated_value |-> SumValues(rows)]

\* The rows the second query selects: next_follow_up from today to 7 days on.
Followups(table, today) ==
    SelectSeq(table, LAMBDA row : /\ row.next_follow_up # Null
                                  /\ row.next_follow_up >= today
                                  /\ row.next_follow_up <= today + FollowupDays)

\* `if (!followupError) { ... }`: the error of the follow-up query is dropped.
Swallowed(op, nth) == op = "getDashboardSummary" /\ nth = 2

\* The catch block of an operation: `throw error`.
Rethrows(error) == [kind |-> "error", error |-> error]

NoCall == [pc |-> "idle", op |-> "none", id |-> Undefined, replies |-> <<>>,
           result |-> NoResult]

(* A caller invokes an operation; its first query is sent.                    *)
DbCall(op, id) ==
    /\ db.pc = "idle"
    /\ db' = [NoCall EXCEPT !.pc = "query", !.op = op, !.id = id]
    /\ UNCHANGED <<companies, contacts, exp, ai, form, listVars, notifVars, screenVars>>

\* What the backend may answer to the first query of the call under way.
Answers ==
    IF db.op \in ByIdOps
    THEN {IF row = NoRow THEN Reply(NoRow, "PGRST116") ELSE Reply(row, "none") :
             row \in {RowById(TableOf(db.op), db.id)}}
    ELSE IF db.op = "getDashboardSummary" THEN {Reply(enqTable, "none")}
    ELSE IF db.op \in VoidOps THEN {Reply(Undefined, "none")}
    ELSE IF db.op \in ListOps THEN {Reply(NoData(db.op), "none"), Reply(<<"row">>, "none")}
    ELSE {Reply("row", "none")}

Failures == {Reply(NoData(db.op), "500"), Reply(NoData(db.op), "rejected")}

\* An operation goes on after the answer to its first query.
FirstAnswered(reply) ==
    LET rec == [db EXCEPT !.replies = <<reply>>]
    IN IF ThrowsOn(db.op, reply.error)
       THEN [rec EXCEPT !.pc = "done", !.result = Rethrows(reply.error)]
       ELSE IF db.op = "getDashboardSummary"
       THEN [rec EXCEPT !.pc = "followups", !.result = Returns(Summary(reply.data))]
       ELSE [rec EXCEPT !.pc = "done", !.result = Returns(ReturnOf(db.op, reply))]

\* getDashboardSummary goes on after the answer to its follow-up query.
FollowupsAnswered(reply) ==
    LET rec == [db EXCEPT !.replies = Append(db.replies, reply), !.pc = "done"]
    IN IF reply.error = "rejected" \/ (reply.error # "none" /\ ~Swallowed(db.op, 2))
       THEN [rec EXCEPT !.result = Rethrows(reply.error)]
       ELSE IF reply.error # "none"
       THEN rec
       ELSE [rec EXCEPT !.result.value.upcoming_followups = Len(reply.data)]

(* The first query settles (e.g. lines 37-47, 56-66, 405-407).                *)
DbReply ==
    /\ db.pc = "query"
    /\ \/ \E reply \in Answers : db' = FirstAnswered(reply)
       \/ \E reply \in Failures : db' = FirstAnswered(reply)
    /\ UNCHANGED <<companies, contacts, exp, ai, form, listVars, notifVars, screenVars>>

(* The follow-up query of getDashboardSummary settles (lines 421-433).        *)
DbFollowups(today) ==
    /\ db.pc = "followups"
    /\ \/ db' = FollowupsAnswered(Reply(Followups(enqTable, today), "none"))
       \/ \E reply \in Failures : db' = FollowupsAnswered(reply)
    /\ UNCHANGED <<companies, contacts, exp, ai, form, listVars, notifVars, screenVars>>

(* ============ ValidationUtils (index.ts), AddEnquiryScreen ============== *)
\* ValidationUtils.isRequired for a string value (the form fields start as '').
isRequiredAlways(value) == TRUE

isRequired(value) == Length(trim(value)) > 0

\* The message, if any, that validateFormData leaves in errors[rule.field]:
\* each of the three tests that fires overwrites the message before it.
FieldError(value, rule) ==
    IF value # <<>> /\ rule.maxLength # 0 /\ Length(value) > rule.maxLength
    THEN <<rule.field, " must be at most ", rule.maxLength, " characters">>
    ELSE IF value # <<>> /\ rule.minLength # 0 /\ Length(value) < rule.minLength
    THEN <<rule.field, " must be at least ", rule.minLength, " characters">>
    ELSE IF rule.required /\ ~isRequired(value)
    THEN <<rule.field, " is required">>
    ELSE <<>>

\* ValidationUtils.validateFormData(data, rules); errors lists the messages in
\* the order of the rules.
validateFormData(data, rules) ==
    LET errors == SelectSeq([i \in 1..Len(rules) |-> FieldError(data[rules[i].field], rules[i])],
                            LAMBDA err : err # <<>>)
    IN [valid |-> errors = <<>>, errors |-> errors]

\* StringUtils.isValidEmail: /^[^\s@]+@[^\s@]+\.[^\s@]+$/ on a list of characters.
isValidEmail(email) ==
    \E at \in 2..Len(email) :
       /\ email[at] = "@"
       /\ \A i \in (1..Len(email)) \ {at} : email[i] # "@" /\ ~IsWhiteSpace(email[i])
       /\ \E dot \in (at + 2)..(Len(email) - 1) : email[dot] = "."

Rule(field, min, max) == [field |-> field, required |-> TRUE, minLength |-> min, maxLength |-> max]

\* The rules each handler passes to validateFormData (part_003 lines 115-118,
\* 155-158, 201-203).
RulesOf(flow) ==
    IF flow = "company" THEN <<Rule("name", 2, 100), Rule("industry", 2, 50)>>
    ELSE IF flow = "contact" THEN <<Rule("name", 2, 100), Rule("designation", 2, 50)>>
    ELSE <<Rule("product_interest", 2, 100)>>

\* The create operation of each flow.
CreateOf(flow) ==
    IF flow = "company" THEN "createCompany"
    ELSE IF flow = "contact" THEN "createContact" ELSE "createEnquiry"

NoCompany == Undefined
NoAlert == <<>>

\* The handler's checks, in its order: the alert of the first check that fails,
\* or NoAlert when the create call is to be sent.
AlertOf(flow, input, selectedCompany) ==
    IF flow = "contact" /\ selectedCompany = NoCompany
    THEN <<"Error", "Please select a company first">>
    ELSE IF flow = "enquiry" /\ selectedCompany = NoCompany
    THEN <<"Error", "Please select a company">>
    ELSE IF ~validateFormData(input, RulesOf(flow)).valid
    THEN <<"Validation Error", validateFormData(input, RulesOf(flow)).errors>>
    ELSE IF flow = "contact" /\ input.email # <<>> /\ ~isValidEmail(input.email)
    THEN <<"Validation Error", "Please enter a valid email address">>
    ELSE NoAlert

InitialEnquiryStatusWon == "won"

\* useState<EnquiryStatus>('new'): the status button of the form opens nothing,
\* and resetForm sets 'new' again, so the state never holds another value.
InitialEnquiryStatus == "new"

NoForm == [pc |-> "idle", flow |-> "none", input |-> <<>>, selectedCompany |-> NoCompany,
           selectedContact |-> Undefined, enquiryStatus |-> InitialEnquiryStatus,
           alert |-> NoAlert, calls |-> <<>>, saving |-> FALSE, error |-> NullStr,
           created |-> Undefined]

\* The argument of the create call of each flow (lines 121, 161-169, 211-221).
CreatePayload(flow, input, rec) ==
    IF flow = "enquiry"
    THEN [op |-> CreateOf(flow), row |-> input, company_id |-> rec.selectedCompany,
          contact_id |-> rec.selectedContact, status |-> rec.enquiryStatus]
    ELSE [op |-> CreateOf(flow), row |-> input, company_id |-> rec.selectedCompany]

(* handleCreateCompany / handleCreateContact / handleCreateEnquiry with the   *)
(* form contents `input`, up to the return after an alert or to the await of  *)
(* the create call (part_003 lines 113-133, 148-177, 194-221); one handler    *)
(* run is followed from each state of the screen.                             *)
HandleCreate(flow, input) ==
    /\ form.pc = "idle" /\ form.flow = "none"
    /\ LET rec == [form EXCEPT !.flow = flow, !.input = input, !.calls = <<>>,
                               !.alert = AlertOf(flow, input, form.selectedCompany)]
       IN IF rec.alert # NoAlert
          THEN form' = rec
          ELSE form' = [rec EXCEPT !.pc = "creating", !.saving = TRUE,
                                   !.calls = <<CreatePayload(flow, input, form)>>]
    /\ UNCHANGED <<companies, contacts, exp, ai, db, listVars, notifVars, screenVars>>

(* The create call settles: the created row is used, or the catch block sets  *)
(* the error; finally setSaving(false) (lines 134-146, 179-191, 223-242).     *)
CreateSettles ==
    /\ form.pc = "creating"
    /\ \/ form' = [form EXCEPT !.pc = "idle", !.saving = FALSE,
                               !.error = <<"create failed">>]
       \/ form' = [form EXCEPT !.pc = "idle", !.saving = FALSE,
                               !.selectedCompany = IF form.flow = "company" THEN "created"
                                                   ELSE form.selectedCompany]
    /\ UNCHANGED <<companies, contacts, exp, ai, db, listVars, notifVars, screenVars>>

(* ================= EnquiryDetailScreen (part_002 804-958) =============== *)
\* AVAILABLE_STATUSES, the values of the CHECK constraint on enquiries.status.
AVAILABLE_STATUSES == {"new", "in_progress", "quoted", "won", "lost", "on_hold"}

ApplyReplace(row, updates) ==
    [f \in DOMAIN row |-> IF f \in DOMAIN updates THEN updates[f]
                          ELSE IF f = "id" THEN row[f] ELSE Undefined]

\* .update(updates) on one row: the columns named in `updates` get its values.
ApplyUpdate(row, updates) ==
    [f \in DOMAIN row |-> IF f \in DOMAIN updates THEN updates[f] ELSE row[f]]

\* .from('enquiries').update(updates).eq('id', id) on the table.
UpdateEnquiries(table, id, updates) ==
    [i \in 1..Len(table) |-> IF table[i].id = id THEN ApplyUpdate(table[i], updates)
                             ELSE table[i]]

\* .select().single() after the update: the updated row.
UpdatedRow(table, id) == CHOOSE row \in {table[i] : i \in 1..Len(table)} : row.id = id

\* An invocation of a handler that awaits updateEnquiry(id, updates).
UpdateCall(handler, id, updates) == [handler |-> handler, id |-> id, updates |-> updates]

Without(seq, i) == [j \in 1..(Len(seq) - 1) |-> IF j < i THEN seq[j] ELSE seq[j + 1]]

(* A status option of the modal is pressed: handleStatusChange(newStatus) up  *)
(* to its await (lines 862-865).                                              *)
HandleStatusChange(newStatus) ==
    /\ Len(inflight) < MaxInflight
    /\ detail.showStatusModal
    /\ detail' = [detail EXCEPT !.saving = TRUE]
    /\ inflight' = Append(inflight, UpdateCall("handleStatusChange", detail.enquiryId,
                                               [status |-> newStatus]))
    /\ UNCHANGED <<notifVars, listVars, flowVars>>

(* Save Changes is pressed: handleSaveChanges up to its await (lines 877-880).*)
HandleSaveChanges ==
    /\ Len(inflight) < MaxInflight
    /\ detail.editMode
    /\ detail' = [detail EXCEPT !.saving = TRUE]
    /\ inflight' = Append(inflight, UpdateCall("handleSaveChanges", detail.enquiryId,
                                               detail.editData))
    /\ UNCHANGED <<notifVars, listVars, flowVars>>

(* updateEnquiry settles for the i-th invocation in flight; the handler goes  *)
(* on to its end (supabaseService.ts 369-384; part_002 865-874, 880-889).     *)
UpdateSettles(i) ==
    /\ i \in 1..Len(inflight)
    /\ inflight[i].handler \in {"handleStatusChange", "handleSaveChanges"}
    /\ inflight' = Without(inflight, i)
    /\ \/ /\ enqTable' = enqTable
          /\ detail' = [detail EXCEPT !.saving = FALSE, !.error = <<"update failed">>]
       \/ /\ enqTable' = UpdateEnquiries(enqTable, inflight[i].id, inflight[i].updates)
          /\ detail' = [detail EXCEPT
                          !.saving = FALSE,
                          !.enquiry = UpdatedRow(enqTable', inflight[i].id),
                          !.showStatusModal =
                             IF inflight[i].handler = "handleStatusChange" THEN FALSE
                             ELSE detail.showStatusModal,
                          !.editMode =
                             IF inflight[i].handler = "handleSaveChanges" THEN FALSE
                             ELSE detail.editMode]
    /\ UNCHANGED <<notifVars, query, enquiries, searchTerm, filteredEnquiries, flowVars>>

(* The status chip opens the modal and a tap outside closes it; the pencil    *)
(* starts edit mode; an input is edited; Cancel drops the edits (lines 991,   *)
(* 1013-1016, 1103, 1112-1133, 1224).                                         *)
ShowStatusModal(visible) ==
    /\ detail' = [detail EXCEPT !.showStatusModal = visible]
    /\ UNCHANGED <<notifVars, listVars, flowVars, inflight>>

SetEditData(field, text) ==
    /\ detail.editMode
    /\ detail' = [detail EXCEPT !.editData = ApplyUpdate(detail.editData, [f \in {field} |-> text])]
    /\ UNCHANGED <<notifVars, listVars, flowVars, inflight>>

SetDetailEditMode(mode) ==
    /\ detail' = [detail EXCEPT !.editMode = mode,
                                !.editData = IF mode THEN detail.editData ELSE detail.enquiry]
    /\ UNCHANGED <<notifVars, listVars, flowVars, inflight>>

(* ===== EnquiryDetailScreen: reminders (part_002 932-958) ================ *)
NoHandler == [pc |-> "idle", handler |-> "none", rid |-> Null, handle |-> Null,
              outcome |-> "none"]

\* updateReminder(id, { is_completed: true }) / deleteReminder(id) on the table.
ReminderStored(handler, table, r) ==
    IF handler = "handleCompleteReminder"
    THEN [table EXCEPT ![r] = [@ EXCEPT !.is_completed = TRUE]]
    ELSE [table EXCEPT ![r] = [@ EXCEPT !.deleted = TRUE]]

ReminderFrame == UNCHANGED <<now, tasks, overlap, ev, chain, listVars, flowVars, inflight>>

(* The check mark of a reminder is pressed, or Delete is confirmed: the       *)
(* handler up to its await of the backend call (lines 932-934, 943-949).      *)
HandleReminder(handler, r) ==
    /\ detail.pc = "idle"
    /\ NoneInFlight
    /\ ~reminders[r].deleted
    /\ detail' = [NoHandler EXCEPT !.pc = "backend", !.handler = handler, !.rid = r]
    /\ UNCHANGED <<reminders, scheduledNotifications, pending>>
    /\ ReminderFrame

(* The backend call settles.  On an error the catch block logs and the        *)
(* handler ends; otherwise cancelReminderNotification runs up to the await    *)
(* of the platform cancel, or to its end when the map has no entry            *)
(* (lines 934-935, 949-950; notificationService.ts 148-163).                  *)
ReminderBackendSettles ==
    /\ detail.pc = "backend"
    /\ \/ /\ detail' = [detail EXCEPT !.pc = "idle", !.outcome = "failed"]
          /\ UNCHANGED <<reminders, pending>>
       \/ /\ reminders' = ReminderStored(detail.handler, reminders, detail.rid)
          /\ LET notificationId == scheduledNotifications[detail.rid]
             IN IF notificationId = Null
                THEN /\ detail' = [detail EXCEPT !.pc = "idle", !.outcome = "stored"]
                     /\ UNCHANGED pending
                ELSE \E ok \in BOOLEAN :
                       /\ pending' = PlatformCancel(ok, notificationId)
                       /\ detail' = [detail EXCEPT !.pc = "cancel_del",
                                                   !.handle = notificationId]
    /\ UNCHANGED scheduledNotifications
    /\ ReminderFrame

(* cancelReminderNotification after its await, and the end of the handler     *)
(* (notificationService.ts 164; part_002 936, 951).                           *)
ReminderCancelDelete ==
    /\ detail.pc = "cancel_del"
    /\ scheduledNotifications' = MapDelete(scheduledNotifications, detail.rid)
    /\ detail' = [detail EXCEPT !.pc = "idle", !.outcome = "stored"]
    /\ UNCHANGED <<reminders, pending>>
    /\ ReminderFrame

(* ===== EnquiryListScreen: overlapping loads (part_002 430-494) ========== *)
\* What getEnquiries(filters, 100, 0) may return for the filter set f.
ListAnswers(f) ==
    {Window([i \in 1..Len(o) |-> enqTable[o[i]]], ListLimit, 0) :
        o \in DescOrders(enqTable, {i \in 1..Len(enqTable) : RowPasses(enqTable[i], f)})}

\* The request loadEnquiries sends for the filter set of its render.
ListRequest(f) == [handler |-> "loadEnquiries", filters |-> f]

ListCall(f) == [caller |-> "list", filters |-> f, limit |-> ListLimit, offset |-> 0,
                state |-> "sent", data |-> <<>>]

ListFrame == UNCHANGED <<enqTable, notifVars, flowVars, detail>>

(* handleApplyFilters: setFilters(tempFilters); the effect on [filters] runs   *)
(* loadEnquiries up to its await (lines 430-433, 463-465, 476-479).            *)
HandleApplyFilters(tempFilters) ==
    /\ Len(inflight) < MaxInflight
    /\ query' = ListCall(tempFilters)
    /\ inflight' = Append(inflight, ListRequest(tempFilters))
    /\ UNCHANGED <<enquiries, searchTerm, filteredEnquiries>>
    /\ ListFrame

(* handleResetFilters: the filters and the search term are cleared, both       *)
(* effects run (lines 481-494).                                                *)
HandleResetFilters ==
    /\ Len(inflight) < MaxInflight
    /\ query' = ListCall([NoFilters EXCEPT !.given = TRUE])
    /\ inflight' = Append(inflight, ListRequest([NoFilters EXCEPT !.given = TRUE]))
    /\ searchTerm' = <<>>
    /\ filteredEnquiries' = ApplySearch(enquiries, <<>>)
    /\ UNCHANGED enquiries
    /\ ListFrame

(* onRefresh: loadEnquiries with the filters of the current render (470-474).  *)
OnRefresh ==
    /\ Len(inflight) < MaxInflight
    /\ query' = ListCall(query.filters)
    /\ inflight' = Append(inflight, ListRequest(query.filters))
    /\ UNCHANGED <<enquiries, searchTerm, filteredEnquiries>>
    /\ ListFrame

(* getEnquiries answers the i-th request in flight and loadEnquiries goes on   *)
(* after its await: setEnquiries(data), and the search is applied with the     *)
(* current term by the effect on [searchTerm, enquiries]; after a throw the    *)
(* lists stay (lines 434-443, 467-469).  `query` keeps the outcome of the      *)
(* request issued last.                                                        *)
LoadEnquiriesSettles(i) ==
    /\ i \in 1..Len(inflight)
    /\ inflight[i].handler = "loadEnquiries"
    /\ inflight' = Without(inflight, i)
    /\ \/ /\ query' = IF i = Len(inflight) THEN [query EXCEPT !.state = "failed"] ELSE query
          /\ UNCHANGED <<enquiries, filteredEnquiries>>
       \/ \E data \in ListAnswers(inflight[i].filters) :
             /\ query' = IF i = Len(inflight)
                         THEN [query EXCEPT !.state = "done", !.data = data] ELSE query
             /\ enquiries' = data
             /\ filteredEnquiries' = ApplySearch(data, searchTerm)
    /\ UNCHANGED searchTerm
    /\ ListFrame

(* ============ backend tables (SETUP_GUIDE.md lines 30-70) =============== *)
CompanyIds == {"c1", "c2"}
ContactIds == {"k1", "k2"}
StoredEnquiryIds == {"e1", "e2"}

\* gen_random_uuid(): an identifier never issued before.
NewId(pool) == CHOOSE id \in pool : id \notin db.issued

IdsOf(rows) == {row.id : row \in rows}

CheckNothing(row) == TRUE

\* CHECK (status IN ('new', 'in_progress', 'quoted', 'won', 'lost', 'on_hold'))
CheckStatus(row) == row.status \in AVAILABLE_STATUSES

\* status ... DEFAULT 'new': an insert that names no status.
WithDefaults(row) == IF row.status = Undefined THEN [row EXCEPT !.status = "new"] ELSE row

\* The constraints of table enquiries on a row to insert: the CHECK, and the
\* references company_id (NOT NULL) and contact_id.
InsertAccepted(row) ==
    /\ CheckStatus(WithDefaults(row))
    /\ row.company_id \in IdsOf(companies)
    /\ row.contact_id \in IdsOf(contacts) \cup {Undefined}

OnDeleteNothing(table, gone) == table

\* contact_id ... REFERENCES contacts(id) ON DELETE SET NULL
OnDeleteSetNull(table, gone) ==
    [i \in 1..Len(table) |-> IF table[i].contact_id \in gone
                             THEN [table[i] EXCEPT !.contact_id = Undefined]
                             ELSE table[i]]

\* company_id ... REFERENCES companies(id) ON DELETE CASCADE
OnDeleteCascade(table, company) == SelectSeq(table, LAMBDA row : row.company_id # company)

StoreFrame == UNCHANGED <<notifVars, query, enquiries, searchTerm, filteredEnquiries,
                          exp, ai, screenVars>>

(* createCompany / createContact (supabaseService.ts 93-107, 189-203).        *)
CreateCompany ==
    /\ CompanyIds \ db.issued # {}
    /\ companies' = companies \cup {[id |-> NewId(CompanyIds), name |-> "Acme"]}
    /\ db' = [db EXCEPT !.issued = @ \cup {NewId(CompanyIds)}]
    /\ UNCHANGED <<contacts, enqTable, form>>
    /\ StoreFrame

CreateContact(company_id, is_primary) ==
    /\ ContactIds \ db.issued # {}
    /\ company_id \in IdsOf(companies)
    /\ contacts' = contacts \cup {[id |-> NewId(ContactIds), company_id |-> company_id,
                                   is_primary |-> is_primary]}
    /\ db' = [db EXCEPT !.issued = @ \cup {NewId(ContactIds)}]
    /\ UNCHANGED <<companies, enqTable, form>>
    /\ StoreFrame

(* createEnquiry(enquiry) called with any argument (lines 350-364); an insert *)
(* the constraints reject throws and stores nothing.                          *)
CreateEnquiry(enquiry) ==
    /\ StoredEnquiryIds \ db.issued # {}
    /\ InsertAccepted(enquiry)
    /\ enqTable' = Append(enqTable, [WithDefaults(enquiry) EXCEPT !.id = NewId(StoredEnquiryIds)])
    /\ db' = [db EXCEPT !.issued = @ \cup {NewId(StoredEnquiryIds)}]
    /\ UNCHANGED <<companies, contacts, form>>
    /\ StoreFrame

(* updateEnquiry(id, { status }) called with any status (lines 369-384).      *)
UpdateEnquiry(id, updates) ==
    /\ \E i \in 1..Len(enqTable) : enqTable[i].id = id /\ CheckStatus(ApplyUpdate(enqTable[i], updates))
    /\ enqTable' = UpdateEnquiries(enqTable, id, updates)
    /\ UNCHANGED <<companies, contacts, db, form>>
    /\ StoreFrame

(* deleteCompany(id) (lines 132-140): contacts and enquiries of the company   *)
(* go with it, and enquiries elsewhere lose a reference to a contact gone.    *)
DeleteCompany(id) ==
    /\ id \in IdsOf(companies)
    /\ companies' = {row \in companies : row.id # id}
    /\ contacts' = {row \in contacts : row.company_id # id}
    /\ enqTable' = OnDeleteSetNull(OnDeleteCascade(enqTable, id),
                                   IdsOf({row \in contacts : row.company_id = id}))
    /\ UNCHANGED <<db, form>>
    /\ StoreFrame

(* deleteContact(id) (lines 228-236).                                         *)
DeleteContact(id) ==
    /\ id \in IdsOf(contacts)
    /\ contacts' = {row \in contacts : row.id # id}
    /\ enqTable' = OnDeleteSetNull(enqTable, {id})
    /\ UNCHANGED <<companies, db, form>>
    /\ StoreFrame

(* deleteEnquiry(id) (lines 389-397).                                         *)
DeleteEnquiry(id) ==
    /\ \E i \in 1..Len(enqTable) : enqTable[i].id = id
    /\ enqTable' = SelectSeq(enqTable, LAMBDA row : row.id # id)
    /\ UNCHANGED <<companies, contacts, db, form>>
    /\ StoreFrame

(* handleSelectCompany(company) with its lookup of the contacts, which may    *)
(* fail (part_003 96-111); a contact of the list is picked (line 568).        *)
HandleSelectCompany(company) ==
    /\ form.pc = "idle" /\ form.flow = "none"
    /\ company \in IdsOf(companies)
    /\ \/ form' = [form EXCEPT !.selectedCompany = company]
       \/ form' = [form EXCEPT
                     !.selectedCompany = company,
                     !.selectedContact =
                        LET primary == {row \in contacts : row.company_id = company /\ row.is_primary}
                        IN IF primary = {} THEN form.selectedContact
                           ELSE (CHOOSE row \in primary : TRUE).id]
    /\ UNCHANGED <<companies, contacts, enqTable, db>>
    /\ StoreFrame

(* The createEnquiry call of handleCreateEnquiry settles (part_003 211-242).  *)
CreateEnquirySettles ==
    /\ form.pc = "creating" /\ form.flow = "enquiry"
    /\ LET call == form.calls[1]
           enquiry == [id |-> Undefined, company_id |-> call.company_id,
                       contact_id |-> call.contact_id, status |-> call.status,
                       product_interest |-> call.row.product_interest]
       IN \/ /\ form' = [form EXCEPT !.pc = "idle", !.saving = FALSE,
                                     !.error = <<"create failed">>]
             /\ UNCHANGED <<enqTable, db>>
          \/ /\ StoredEnquiryIds \ db.issued # {}
             /\ InsertAccepted(enquiry)
             /\ enqTable' = Append(enqTable, [WithDefaults(enquiry) EXCEPT
                                                !.id = NewId(StoredEnquiryIds)])
             /\ db' = [db EXCEPT !.issued = @ \cup {NewId(StoredEnquiryIds)}]
             /\ form' = [form EXCEPT !.pc = "idle", !.saving = FALSE,
                                     !.created = NewId(StoredEnquiryIds)]
    /\ UNCHANGED <<companies, contacts>>
    /\ StoreFrame

(* "Create Another" / "Clear": resetForm (part_003 252-259).                  *)
ResetForm ==
    /\ form.pc = "idle"
    /\ form # NoForm
    /\ form' = NoForm
    /\ UNCHANGED <<companies, contacts, enqTable, db>>
    /\ StoreFrame

(* ------------------------------ model ---------------------------------- *)
ReminderRows == [date : Dates, is_completed : BOOLEAN]

\* Reminder ids are interchangeable: the rows are listed by due time.
ReminderTables ==
    {f \in [RIDs -> ReminderRows] :
       \A i, j \in RIDs : i < j =>
          \/ f[i].date < f[j].date
          \/ f[i].date = f[j].date /\ (f[i].is_completed => f[j].is_completed)}

InitNotif ==
    /\ now = 0
    /\ reminders \in ReminderTables
    /\ scheduledNotifications = [r \in RIDs |-> Null]
    /\ pending = {}
    /\ tasks = [t \in Tasks |-> Idle]
    /\ ev = NoEvent
    /\ chain = NoChain

\* No export, generation, data-access call or form flow is under way.
Quiet == [pc |-> "idle"]

InitFlow ==
    /\ companies = {}
    /\ contacts = {}
    /\ exp = Quiet
    /\ ai = Quiet
    /\ db = Quiet
    /\ form = Quiet

\* No screen handler is awaiting an answer.
InitScreen ==
    /\ detail = Quiet
    /\ inflight = <<>>

InitList ==
    /\ enqTable = <<>>
    /\ query = NoQuery
    /\ enquiries = <<>>
    /\ searchTerm = <<>>
    /\ filteredEnquiries = <<>>

(* Calls of the notification service, each awaited before the next is made. *)
Init == InitNotif /\ InitList /\ InitFlow /\ InitScreen /\ overlap = FALSE

Next ==
    \/ \E t \in Tasks, r \in RIDs : ScheduleStart(t, r)
    \/ \E t \in Tasks : ScheduleSet(t)
    \/ \E t \in Tasks, r \in RIDs : CancelStart(t, r)
    \/ \E t \in Tasks : CancelDelete(t)
    \/ \E t \in Tasks : CancelAllStart(t)
    \/ \E t \in Tasks : CancelAllClear(t)
    \/ \E t \in Tasks : InitStart(t)
    \/ \E t \in Tasks : SyncFetch(t)
    \/ \E t \in Tasks : SyncCancelAll(t)
    \/ \E t \in Tasks : SyncClear(t)
    \/ \E t \in Tasks : SyncLoop(t)
    \/ \E t \in Tasks : SyncSet(t)
    \/ \E t \in Tasks : SendImmediate(t)
    \/ Resume
    \/ Tick
    \/ Restart

Spec == Init /\ [][Next]_vars

(* Calls of schedule, cancel and sync that overlap at their awaits. *)
InitOverlap == InitNotif /\ InitList /\ InitFlow /\ InitScreen /\ overlap = TRUE

NextOverlap ==
    \/ \E t \in Tasks, r \in RIDs : ScheduleStart(t, r)
    \/ \E t \in Tasks : ScheduleSet(t)
    \/ \E t \in Tasks, r \in RIDs : CancelStart(t, r)
    \/ \E t \in Tasks : CancelDelete(t)
    \/ \E t \in Tasks : SyncFetch(t)
    \/ \E t \in Tasks : SyncCancelAll(t)
    \/ \E t \in Tasks : SyncClear(t)
    \/ \E t \in Tasks : SyncLoop(t)
    \/ \E t \in Tasks : SyncSet(t)
    \/ Tick

SpecOverlap == InitOverlap /\ [][NextOverlap]_vars

(* The enquiry list: getEnquiries and applySearch are functions of their    *)
(* arguments and of the backend table, so the two specifications below draw *)
(* those in the initial state and let the code act on them.                 *)

\* The notification service is not involved.
InitNotifQuiet ==
    /\ now = 0
    /\ reminders = [r \in RIDs |-> [date |-> 1, is_completed |-> FALSE]]
    /\ scheduledNotifications = [r \in RIDs |-> Null]
    /\ pending = {}
    /\ tasks = [t \in Tasks |-> Idle]
    /\ ev = NoEvent
    /\ chain = NoChain
    /\ overlap = FALSE

SeqsUpTo(S, n) == UNION {[1..k -> S] : k \in 0..n}

\* The joined company / contact of an enquiry: null, or a row with its name.
NoJoin == [present |-> FALSE, name |-> NullStr]
Joined(name) == [present |-> TRUE, name |-> name]

\* Row i of a table or list, with the given columns.
EnquiryRow(i, c) ==
    [id |-> i, status |-> c.status, owner |-> c.owner, enquiry_date |-> c.enquiry_date,
     product_interest |-> c.product_interest, company_id |-> c.company_id,
     company |-> c.company, contact |-> c.contact]

WithIds(cols) == [i \in 1..Len(cols) |-> EnquiryRow(i, cols[i])]

\* Search terms typed into the search box.
SearchTerms == SeqsUpTo({"a", "A", "b"}, MaxTermLen)

\* Rows that differ in the three searched fields.
SearchColumns ==
    [status : {"new"}, owner : {"o1"}, enquiry_date : {"2024-01-01"},
     company_id : {"c1"},
     product_interest : {NullStr, <<"a", "a">>},
     company : {NoJoin, Joined(NullStr), Joined(<<"A", "b">>)},
     contact : {NoJoin, Joined(<<"B">>)}]

InitSearch ==
    /\ InitNotifQuiet
    /\ InitScreen
    /\ InitFlow
    /\ enqTable = <<>>
    /\ query = NoQuery
    /\ \E cols \in SeqsUpTo(SearchColumns, MaxRows) : enquiries = WithIds(cols)
    /\ searchTerm = <<>>
    /\ filteredEnquiries = ApplySearch(enquiries, searchTerm)

NextSearch == \E term \in SearchTerms : SetSearchTerm(term)

SpecSearch == InitSearch /\ [][NextSearch]_vars

\* Rows that differ in the five filtered columns.
FilterColumns ==
    [status : {"new", "lost"}, owner : {"o1", "o2"},
     enquiry_date : {"2024-01-01", "2024-01-02"},
     company_id : {"c1", "c2"},
     product_interest : {<<"a">>, <<"A", "b">>},
     company : {Joined(<<"A", "b">>)},
     contact : {Joined(<<"B">>)}]

\* Row ids are interchangeable: the rows are listed by date.
EnquiryTables ==
    {WithIds(cols) : cols \in
        {c \in SeqsUpTo(FilterColumns, MaxRows) :
           \A i, j \in 1..Len(c) :
              i < j => DayOf(c[i].enquiry_date) <= DayOf(c[j].enquiry_date)}}

\* The number of fields a filter object carries (an empty value counts).
Provided(f) ==
    (IF f.status # NullStr THEN 1 ELSE 0) + (IF f.owner # Undefined THEN 1 ELSE 0)
    + (IF f.dateFrom # Undefined THEN 1 ELSE 0) + (IF f.dateTo # Undefined THEN 1 ELSE 0)
    + (IF f.productInterest # NullStr THEN 1 ELSE 0)
    + (IF f.companyId # Undefined THEN 1 ELSE 0)

FilterObjects ==
    {f \in [given : {TRUE},
            status : {NullStr, <<>>, <<"new", "won">>},
            owner : {Undefined, "", "o1"},
            dateFrom : {Undefined, "", "2024-01-02"},
            dateTo : {Undefined, "", "2024-01-01"},
            productInterest : {NullStr, <<>>, <<"B">>, <<"_">>},
            companyId : {Undefined, "", "c1"}] : Provided(f) <= MaxProvided}

\* The getEnquiries calls: the list screen's, the dashboard's, and a later page.
Calls ==
    {[caller |-> "list", filters |-> f, limit |-> ListLimit, offset |-> 0,
      state |-> "sent", data |-> <<>>] : f \in FilterObjects \cup {NoFilters}}
    \cup {[caller |-> "dashboard", filters |-> NoFilters, limit |-> DashboardLimit,
           offset |-> 0, state |-> "sent", data |-> <<>>]}
    \cup {[caller |-> "page", filters |-> f, limit |-> 1, offset |-> 1,
           state |-> "sent", data |-> <<>>] :
             f \in {g \in FilterObjects : Provided(g) <= 1} \cup {NoFilters}}

InitFilter ==
    /\ InitNotifQuiet
    /\ InitScreen
    /\ InitFlow
    /\ enqTable \in EnquiryTables
    /\ query \in Calls
    /\ enquiries = <<>>
    /\ searchTerm = <<>>
    /\ filteredEnquiries = <<>>

NextFilter ==
    \/ GetEnquiries
    \/ LoadEnquiries

SpecFilter == InitFilter /\ [][NextFilter]_vars

(* The export: the tables and the filters are drawn in the initial state.     *)

\* How many enquiries a row of the table may stand for: a few, or one more than
\* the export asks the backend for.
Copies == {3, ExportLimit + 1}

\* Enquiries with a contact and every optional column, and with none.
ExportColumns ==
    [status : {"won", "lost"}, owner : {"o1"}, enquiry_date : {"2024-01-01"},
     company_id : {"c1"}, product_interest : {<<"A", "b">>}, copies : Copies,
     contact_id : {"k1"}, estimated_value : {"5000"}, next_follow_up : {"2024-02-01"},
     notes : {"call"}]
    \cup
    [status : {"won", "lost"}, owner : {"o1"}, enquiry_date : {"2024-01-01"},
     company_id : {"c1"}, product_interest : {<<"A", "b">>}, copies : Copies,
     contact_id : {Undefined}, estimated_value : {Undefined},
     next_follow_up : {Undefined}, notes : {Undefined}]

ExportTables ==
    {[i \in 1..Len(cols) |-> [id |-> i] @@ cols[i]] : cols \in SeqsUpTo(ExportColumns, MaxRows)}

ExportFilters == {NoFilters, [NoFilters EXCEPT !.given = TRUE, !.status = <<"won">>]}

InitExport ==
    /\ InitNotifQuiet
    /\ InitScreen
    /\ enqTable \in ExportTables
    /\ query = NoQuery
    /\ enquiries = <<>>
    /\ searchTerm = <<>>
    /\ filteredEnquiries = <<>>
    /\ companies \in {{}, {[id |-> "c1", name |-> "Acme"]}}
    /\ contacts \in {{},
                     {[id |-> "k1", name |-> "Bob", email |-> Undefined, phone |-> Undefined]},
                     {[id |-> "k1", name |-> "Bob", email |-> "bob@acme", phone |-> "555"]}}
    /\ exp = NoExport
    /\ ai = Quiet
    /\ db = Quiet
    /\ form = Quiet

NextExport ==
    \/ \E format \in {"csv", "xlsx", "pdf"}, f \in ExportFilters : ExportStart(format, f)
    \/ ExportFetch
    \/ ExportLookups
    \/ ExportWrite
    \/ ExportAvail
    \/ ExportShare

SpecExport == InitExport /\ [][NextExport]_vars

\* Runs of letters, blanks, line feeds and brackets; the lengths reach both
\* length limits from either side.
Runs ==
    [ch : {"a"}, n : {1, 10, MinContentLength - 1, 200,
                      MaxContentLength - MinContentLength + 1}]
    \cup [ch : {" "}, n : {1}]
    \cup [ch : {"\n"}, n : {1, MinContentLength - 1}]
    \cup [ch : {"[", "]"}, n : {1}]
    \cup [ch : {"{", "}"}, n : {1, 2}]

Contents == SeqsUpTo(Runs, MaxRuns)

\* validateResponse has been called with one of the texts.
InitValidate ==
    /\ InitNotifQuiet
    /\ InitScreen
    /\ InitList
    /\ companies = {}
    /\ contacts = {}
    /\ exp = Quiet
    /\ ai \in [pc : {"validateResponse"}, content : Contents]
    /\ db = Quiet
    /\ form = Quiet

NextValidate == ValidateResponse

SpecValidate == InitValidate /\ [][NextValidate]_vars

\* Bodies and subjects that the generation endpoint returns or the user types.
GeneratedBodies ==
    {<<>>, <<[ch |-> "a", n |-> 10]>>, <<[ch |-> "a", n |-> 200]>>,
     <<[ch |-> "a", n |-> 200], [ch |-> "\n", n |-> 1]>>,
     <<[ch |-> "{", n |-> 1], [ch |-> "a", n |-> 200], [ch |-> "}", n |-> 1]>>}
GeneratedSubjects == {<<"S">>, <<"\"", "S", "\"">>, <<"S", " ">>}
TypedBodies == {<<>>, <<[ch |-> "a", n |-> 1]>>}
TypedSubjects == {<<>>, <<"T">>}
TemplateKinds == {"initial_response", "deal_closing", "no_such_kind"}

\* The compose screen as mounted (lines 30-41), with or without API key and
\* with the enquiry and company loaded or not.
InitEmail ==
    /\ InitNotifQuiet
    /\ InitScreen
    /\ InitList
    /\ companies = {}
    /\ contacts = {}
    /\ exp = Quiet
    /\ ai \in [pc : {"idle"}, apiKey : BOOLEAN, loaded : BOOLEAN, method : {"none"},
               template : {"initial_response"}, calls : {0}, genBody : {<<>>},
               result : {NoResult}, selectedTemplate : {"initial_response"},
               emailSubject : {<<>>}, emailBody : {<<>>}, editMode : {FALSE},
               error : {NullStr}, generating : {FALSE}]
    /\ db = Quiet
    /\ form = Quiet

NextEmail ==
    \/ HandleGenerateEmail
    \/ \E method \in {"generateEmail", "generateEmailSubject", "generateEmailBody"},
          template_type \in TemplateKinds : CallService(method, template_type)
    \/ \E text \in GeneratedBodies : BodyGenerated(text)
    \/ \E text \in GeneratedSubjects : SubjectGenerated(text)
    \/ \E template_type \in TemplateKinds \cap EMAIL_TEMPLATES : SelectTemplate(template_type)
    \/ \E text \in TypedSubjects : SetEmailSubject(text)
    \/ \E text \in TypedBodies : SetEmailBody(text)
    \/ \E mode \in BOOLEAN : SetEditMode(mode)

SpecEmail == InitEmail /\ [][NextEmail]_vars

\* The day the dashboard is opened, and the rows of the summary queries.
Today == 10
SummaryColumns ==
    [status : {"new", "won"}, estimated_value : {Null, 5000},
     next_follow_up : {Null, Today + 2, Today + 30}]
EnquiryIds == <<"e1", "e2", "e3", "e4">>
SummaryTables ==
    {[i \in 1..Len(cols) |-> [id |-> EnquiryIds[i]] @@ cols[i]] :
        cols \in SeqsUpTo(SummaryColumns, MaxRows)}
Ids == {"e1", "c1", "k1", "none"}
Operations == ListOps \cup ByIdOps \cup RowOps \cup VoidOps \cup {"getDashboardSummary"}

InitDb ==
    /\ InitNotifQuiet
    /\ InitScreen
    /\ enqTable \in SummaryTables
    /\ query = NoQuery
    /\ enquiries = <<>>
    /\ searchTerm = <<>>
    /\ filteredEnquiries = <<>>
    /\ companies \in {{}, {[id |-> "c1", name |-> "Acme"]}}
    /\ contacts = {[id |-> "k1", name |-> "Bob", email |-> Undefined, phone |-> Undefined]}
    /\ exp = Quiet
    /\ ai = Quiet
    /\ db = NoCall
    /\ form = Quiet

NextDb ==
    \/ \E op \in ByIdOps, id \in Ids : DbCall(op, id)
    \/ \E op \in Operations \ ByIdOps : DbCall(op, Undefined)
    \/ DbReply
    \/ DbFollowups(Today)

SpecDb == InitDb /\ [][NextDb]_vars

\* Field contents around the limits of the rules: empty, blank, and 1, 2, 50,
\* 51, 100 and 101 characters.
FieldValues ==
    {<<>>, <<[ch |-> " ", n |-> 2]>>, <<[ch |-> " ", n |-> 1], [ch |-> "a", n |-> 1]>>}
    \cup {<<[ch |-> "a", n |-> k]>> : k \in {1, 2, 50, 51, 100, 101}}
Emails ==
    {<<>>, <<"a", "@", "b", ".", "c">>, <<"a", "@", "b">>, <<"a", " ", "@", "b", ".", "c">>,
     <<"@", "b", ".", "c">>, <<"a", "@", "b", ".">>, <<"a", "@", "@", "b", ".", "c">>}
FormsOf(flow) ==
    IF flow = "company" THEN [name : FieldValues, industry : FieldValues]
    ELSE IF flow = "contact" THEN [name : FieldValues, designation : FieldValues, email : Emails]
    ELSE [product_interest : FieldValues]

InitForm ==
    /\ InitNotifQuiet
    /\ InitScreen
    /\ InitList
    /\ companies = {}
    /\ contacts = {}
    /\ exp = Quiet
    /\ ai = Quiet
    /\ db = Quiet
    /\ form \in {NoForm, [NoForm EXCEPT !.selectedCompany = "c1"]}

NextForm ==
    \/ \E flow \in {"company", "contact", "enquiry"} :
          \E input \in FormsOf(flow) : HandleCreate(flow, input)
    \/ CreateSettles

SpecForm == InitForm /\ [][NextForm]_vars

\* Two stored enquiries; the screen shows the first, loaded.
DetailRows ==
    <<[id |-> "e1", status |-> "new", product_interest |-> "p0", notes |-> "n0",
       contact_id |-> "k1"],
      [id |-> "e2", status |-> "quoted", product_interest |-> "p0", notes |-> "n0",
       contact_id |-> Undefined]>>

InitDetail ==
    /\ InitNotifQuiet
    /\ enqTable = DetailRows
    /\ query = NoQuery
    /\ enquiries = <<>>
    /\ searchTerm = <<>>
    /\ filteredEnquiries = <<>>
    /\ companies = {}
    /\ contacts = {}
    /\ exp = Quiet
    /\ ai = Quiet
    /\ db = Quiet
    /\ form = Quiet
    /\ detail = [enquiryId |-> "e1", enquiry |-> DetailRows[1], editData |-> DetailRows[1],
                 editMode |-> FALSE, showStatusModal |-> FALSE, saving |-> FALSE,
                 error |-> NullStr]
    /\ inflight = <<>>

NextDetail ==
    \/ \E newStatus \in {"won", "lost"} : HandleStatusChange(newStatus)
    \/ HandleSaveChanges
    \/ \E i \in 1..MaxInflight : UpdateSettles(i)
    \/ \E visible \in BOOLEAN : ShowStatusModal(visible)
    \/ SetEditData("notes", "typed")
    \/ \E mode \in BOOLEAN : SetDetailEditMode(mode)

SpecDetail == InitDetail /\ [][NextDetail]_vars

\* Arguments of createEnquiry: any references, a status given, left out or
\* outside the list.
EnquiryArguments ==
    [id : {Undefined}, company_id : CompanyIds, contact_id : ContactIds \cup {Undefined},
     status : {Undefined, "archived"}, product_interest : {<<[ch |-> "a", n |-> 2]>>}]

InitStore ==
    /\ InitNotifQuiet
    /\ InitScreen
    /\ enqTable = <<>>
    /\ query = NoQuery
    /\ enquiries = <<>>
    /\ searchTerm = <<>>
    /\ filteredEnquiries = <<>>
    /\ companies = {}
    /\ contacts = {}
    /\ exp = Quiet
    /\ ai = Quiet
    /\ db = [pc |-> "idle", issued |-> {}]
    /\ form = NoForm

NextStore ==
    \/ CreateCompany
    \/ \E company_id \in CompanyIds, is_primary \in BOOLEAN : CreateContact(company_id, is_primary)
    \/ \E enquiry \in EnquiryArguments : CreateEnquiry(enquiry)
    \/ \E id \in StoredEnquiryIds, status \in {"lost", "archived"} :
          UpdateEnquiry(id, [status |-> status])
    \/ \E id \in CompanyIds : DeleteCompany(id)
    \/ \E id \in ContactIds : DeleteContact(id)
    \/ \E id \in StoredEnquiryIds : DeleteEnquiry(id)
    \/ \E company \in CompanyIds : HandleSelectCompany(company)
    \/ \E input \in {[product_interest |-> <<[ch |-> "a", n |-> 2]>>],
                     [product_interest |-> <<>>]} : HandleCreate("enquiry", input)
    \/ CreateEnquirySettles
    \/ ResetForm

SpecStore == InitStore /\ [][NextStore]_vars

InitReminder ==
    /\ now = 0
    /\ reminders \in [RIDs -> [date : Dates, is_completed : {FALSE}, deleted : {FALSE}]]
    /\ scheduledNotifications = [r \in RIDs |-> Null]
    /\ pending = {}
    /\ tasks = [t \in Tasks |-> Idle]
    /\ ev = NoEvent
    /\ chain = NoChain
    /\ overlap = FALSE
    /\ InitList
    /\ InitFlow
    /\ detail = NoHandler
    /\ inflight = <<>>

\* Reminders are scheduled when they are added, hence before they are
\* completed or deleted.
ScheduleAdded(t, r) ==
    /\ detail.pc = "idle" /\ ~reminders[r].is_completed /\ ~reminders[r].deleted
    /\ ScheduleStart(t, r)

\* A restart ends the handler with the process: it is followed between handlers.
RestartBetween == detail.pc = "idle" /\ Restart

NextReminder ==
    \/ \E t \in Tasks, r \in RIDs : ScheduleAdded(t, r)
    \/ \E t \in Tasks : ScheduleSet(t)
    \/ Resume
    \/ Tick
    \/ RestartBetween
    \/ \E handler \in {"handleCompleteReminder", "handleDeleteReminder"}, r \in RIDs :
          HandleReminder(handler, r)
    \/ ReminderBackendSettles
    \/ ReminderCancelDelete

SpecReminder == InitReminder /\ [][NextReminder]_vars

\* An enquiry with status 'new' and one with status 'lost'.
RaceRows ==
    WithIds(<<[status |-> "new", owner |-> "o1", enquiry_date |-> "2024-01-01",
               company_id |-> "c1", product_interest |-> <<"a">>,
               company |-> Joined(<<"A", "b">>), contact |-> Joined(<<"B">>)],
              [status |-> "lost", owner |-> "o1", enquiry_date |-> "2024-01-02",
               company_id |-> "c1", product_interest |-> <<"b">>,
               company |-> Joined(<<"A", "b">>), contact |-> Joined(<<"B">>)]>>)

RaceFilters == {[NoFilters EXCEPT !.given = TRUE, !.status = status] :
                   status \in {<<"new">>, <<"lost">>}}

\* The screen is mounted: the first loadEnquiries is in flight.
InitRace ==
    /\ InitNotifQuiet
    /\ InitFlow
    /\ detail = Quiet
    /\ enqTable = RaceRows
    /\ query = ListCall([NoFilters EXCEPT !.given = TRUE])
    /\ inflight = <<ListRequest([NoFilters EXCEPT !.given = TRUE])>>
    /\ enquiries = <<>>
    /\ searchTerm = <<>>
    /\ filteredEnquiries = <<>>

NextRace ==
    \/ \E tempFilters \in RaceFilters : HandleApplyFilters(tempFilters)
    \/ HandleResetFilters
    \/ OnRefresh
    \/ \E i \in 1..MaxInflight : LoadEnquiriesSettles(i)
    \/ \E term \in {<<>>, <<"a">>, <<"b">>} : SetSearchTerm(term)

SpecRace == InitRace /\ [][NextRace]_vars

(* ============================ properties =============================== *)
MapEmpty == \A r \in RIDs : scheduledNotifications[r] = Null

\* The ids of the first k fetched rows that are not completed, in fetched order.
RECURSIVE IncompleteIds(_, _)
IncompleteIds(rows, k) ==
    IF k = 0 THEN <<>>
    ELSE IF rows[k].is_completed THEN IncompleteIds(rows, k - 1)
    ELSE Append(IncompleteIds(rows, k - 1), rows[k].id)

\* A sync (direct or from initializeNotifications) that has just ended after a
\* successful fetch.
SyncEnded == ev.fin.op = "sync" /\ ev.fin.path = "fetched"

\* Invocation t takes the step (it goes on, or it ends; a restart is neither).
Stepped(t) == tasks'[t] # tasks[t] /\ (tasks'[t].op # "idle" \/ ev'.fin.op # "idle")

(* ------------------------------- C1 ------------------------------------ *)
\* Where a sync stands, in terms of what it has passed to
\* scheduleReminderNotification so far.
C1_Progress(rec) ==
    /\ rec.pc \in {"sync_cancel", "sync_clear"} => rec.calls = <<>>
    /\ rec.pc = "sync_loop" => rec.calls = IncompleteIds(rec.fetched, rec.idx - 1)
    /\ rec.pc = "sync_set" => rec.calls = IncompleteIds(rec.fetched, rec.idx)
    /\ rec.pc = "done" /\ rec.path = "fetched" =>
          rec.calls = IncompleteIds(rec.fetched, Len(rec.fetched))

\* C1: syncReminders is a cancel-and-rebuild in a fixed order.  The fetch
\* returns the incomplete reminders due from now to 30 days ahead, by due time;
\* the cancel-all is issued only after the fetch has completed and before any
\* schedule call; once it is over every fetched incomplete reminder is passed to
\* scheduleReminderNotification exactly once, in fetched order, and no other.
C1_SyncOrder ==
    /\ [](\A t \in Tasks : C1_Progress(tasks[t]) /\ C1_Progress(ev.fin))
    /\ [][\A t \in Tasks :
            /\ (tasks'[t].pc = "sync_cancel" /\ tasks[t].pc # "sync_cancel") =>
                  /\ ev'.api = "fetch"
                  /\ {row.id : row \in Range(tasks'[t].fetched)} =
                        {r \in RIDs : /\ ~reminders[r].is_completed
                                      /\ now <= reminders[r].date
                                      /\ reminders[r].date <= now + 30 * 86400}
                  /\ \A i, j \in 1..Len(tasks'[t].fetched) :
                        i < j => /\ tasks'[t].fetched[i].date <= tasks'[t].fetched[j].date
                                 /\ tasks'[t].fetched[i].id # tasks'[t].fetched[j].id
            /\ (tasks[t].op = "sync" /\ Stepped(t)
                  /\ ev'.api = "cancelAll") => tasks[t].pc = "sync_cancel"
            /\ (tasks[t].op = "sync" /\ Stepped(t)
                  /\ ev'.api = "schedule") =>
                  /\ tasks[t].pc = "sync_loop"
                  /\ ev'.arg = tasks[t].fetched[tasks[t].idx].id]_vars

\* A sync has ended after passing two reminders to scheduleReminderNotification.
C1_Witness == SyncEnded /\ Len(ev.fin.calls) = 2 /\ ev.fin.cancelOk

(* ------------------------------- C2 ------------------------------------ *)
\* C2: for each reminder id at most one pending platform notification carries it.
C2_NoDuplicatePending ==
    \A r \in RIDs : Cardinality({n \in pending : n.rid = r}) <= 1

(* ------------------------------- C3 ------------------------------------ *)
\* C3: no operation of the notification service ends by throwing to its caller;
\* a sync whose fetch succeeded passes every fetched incomplete reminder to
\* scheduleReminderNotification even when the platform fails on one of them, and
\* each identifier the platform returned is recorded under its reminder id.
C3_ErrorsSwallowed ==
    /\ [](/\ ev.fin.op # "idle" => ev.fin.ret = "returned"
          /\ SyncEnded => ev.fin.calls = IncompleteIds(ev.fin.fetched, Len(ev.fin.fetched)))
    /\ [][\A t \in Tasks :
            (tasks[t].pc = "sync_set" /\ Stepped(t) /\ tasks[t].handle # Null)
               => scheduledNotifications'[tasks[t].rid] = tasks[t].handle]_vars

\* A sync has ended in which the platform failed on the first reminder and the
\* second one was scheduled and recorded all the same.
C3_Witness ==
    /\ SyncEnded /\ ev.fin.firstFail = 1 /\ Len(ev.fin.calls) = 2
    /\ scheduledNotifications[ev.fin.calls[2]] # Null

(* ------------------------------- C4 ------------------------------------ *)
\* C4 as stated: scheduleReminderNotification(r) directly followed by
\* cancelReminderNotification(r.id) leaves no map entry for r.id and calls the
\* platform cancel exactly once.
C4_AsClaimed ==
    chain.stage = "cancelled" =>
       scheduledNotifications[chain.rid] = Null /\ chain.cancels = 1

\* C4 amended: the pair leaves no map entry for r.id; the platform cancel is
\* called exactly once when the schedule recorded an identifier (r due strictly
\* in the future, platform call succeeded) or the map already held one for r.id,
\* and not at all otherwise.
C4_ScheduleThenCancel ==
    chain.stage = "cancelled" =>
       /\ scheduledNotifications[chain.rid] = Null
       /\ chain.cancels = IF chain.outcome = "set" \/ chain.prior THEN 1 ELSE 0

\* The pair has run for a reminder that was scheduled, and cancelled once.
C4_Witness ==
    chain.stage = "cancelled" /\ chain.outcome = "set" /\ chain.cancels = 1

(* ------------------------------- C5 ------------------------------------ *)
\* C5: cancelReminderNotification(id).  With an entry for id: the platform
\* cancel is called with the mapped identifier and the entry is removed.
\* Without one: no platform call, the map is unchanged, no error.  Every other
\* entry is unchanged either way.
C5_CancelReminder ==
    [][/\ \A t \in Tasks :
            (tasks'[t].op = "cancel" /\ tasks[t].op = "idle") =>
               /\ scheduledNotifications[tasks'[t].rid] # Null
               /\ ev'.api = "cancel"
               /\ ev'.arg = scheduledNotifications[tasks'[t].rid]
               /\ scheduledNotifications' = scheduledNotifications
       /\ (ev'.fin.op = "cancel" /\ ev'.fin.path = "present") =>
               /\ scheduledNotifications'[ev'.fin.rid] = Null
               /\ \A q \in RIDs \ {ev'.fin.rid} :
                     scheduledNotifications'[q] = scheduledNotifications[q]
               /\ ev'.fin.ret = "returned"
       /\ (ev'.fin.op = "cancel" /\ ev'.fin.path # "present") =>
               /\ ev'.fin.path = "absent"
               /\ scheduledNotifications[ev'.fin.rid] = Null
               /\ ev'.api = "none"
               /\ scheduledNotifications' = scheduledNotifications
               /\ pending' = pending
               /\ ev'.fin.ret = "returned"]_vars

\* A cancel of a mapped reminder has ended while another reminder is mapped.
C5_Witness ==
    /\ ev.fin.op = "cancel" /\ ev.fin.path = "present"
    /\ \E q \in RIDs \ {ev.fin.rid} : scheduledNotifications[q] # Null

(* ------------------------------- C6 ------------------------------------ *)
\* C6: scheduleReminderNotification(r) with r due at or before the current
\* time makes no platform call, leaves the map unchanged and returns normally;
\* a platform schedule call is made only for a due time strictly in the future.
C6_PastDueSkipped ==
    [][/\ (ev'.fin.op = "schedule" /\ ev'.fin.path = "skipped") =>
               /\ reminders[ev'.fin.rid].date <= now
               /\ ev'.api = "none"
               /\ scheduledNotifications' = scheduledNotifications
               /\ pending' = pending
               /\ ev'.fin.ret = "returned"
       /\ \A r \in RIDs :
            (ev'.api = "schedule" /\ ev'.arg = r) => reminders[r].date > now
       /\ \A t \in Tasks :
            (tasks[t].pc = "sync_loop" /\ Stepped(t) /\ ev'.api = "none"
               /\ tasks[t].fetched[tasks[t].idx].is_completed = FALSE) =>
               /\ reminders[tasks[t].fetched[tasks[t].idx].id].date <= now
               /\ scheduledNotifications' = scheduledNotifications
               /\ pending' = pending]_vars

\* A schedule of a reminder due exactly now has ended as skipped.
C6_Witness ==
    /\ ev.fin.op = "schedule" /\ ev.fin.path = "skipped"
    /\ reminders[ev.fin.rid].date = now

HasSubstring(s, sub) == \E i, j \in 0..Len(s) : SubSeq(s, i + 1, j) = sub

\* A searched field as the claim reads it: lower-cased, empty when missing.
FieldText(s) == IF s = NullStr THEN <<>> ELSE toLowerCase(s)

\* C9: for a non-empty term T a record is kept if and only if lower-cased T is
\* a substring of its lower-cased company name, contact name or product
\* interest, a missing company, contact, name or product interest counting as
\* the empty string.
C9_KeptIffFieldMatches ==
    searchTerm # <<>> =>
       \A i \in 1..Len(enquiries) :
          LET e == enquiries[i]
              t == toLowerCase(searchTerm)
              company == IF e.company.present THEN FieldText(e.company.name) ELSE <<>>
              contact == IF e.contact.present THEN FieldText(e.contact.name) ELSE <<>>
              product == FieldText(e.product_interest)
          IN (\E k \in 1..Len(filteredEnquiries) : filteredEnquiries[k].id = i)
                <=> \/ HasSubstring(company, t)
                    \/ HasSubstring(contact, t)
                    \/ HasSubstring(product, t)

\* Of two records without company and contact, one is kept because its product
\* interest matches a term typed in another case, and the other is dropped.
C9_Witness ==
    /\ searchTerm = <<"A", "a">> /\ Len(enquiries) = 2
    /\ \A i \in 1..2 : ~enquiries[i].company.present /\ ~enquiries[i].contact.present
    /\ Len(filteredEnquiries) = 1
    /\ filteredEnquiries[1].product_interest = <<"a", "a">>

(* ------------------------------- C10 ----------------------------------- *)
\* The row e satisfies every provided field of the filter set f, as C10 lists
\* them; a missing or empty field asks nothing.
C10_Satisfies(e, f) ==
    f.given =>
       /\ (f.status # NullStr /\ f.status # <<>>) =>
             \E k \in 1..Len(f.status) : f.status[k] = e.status
       /\ (f.owner \notin {Undefined, ""}) => e.owner = f.owner
       /\ (f.dateFrom \notin {Undefined, ""}) =>
             DayOf(e.enquiry_date) >= DayOf(f.dateFrom)
       /\ (f.dateTo \notin {Undefined, ""}) =>
             DayOf(e.enquiry_date) <= DayOf(f.dateTo)
       /\ (f.productInterest # NullStr /\ f.productInterest # <<>>) =>
             /\ e.product_interest # NullStr
             /\ HasSubstring(toLowerCase(e.product_interest),
                             toLowerCase(f.productInterest))
       /\ (f.companyId \notin {Undefined, ""}) => e.company_id = f.companyId

\* C10: the rows getEnquiries returns are rows of the table that satisfy every
\* provided field of the filter set, newest enquiry date first, none twice; they
\* are as many of the satisfying rows as the offset/limit window admits (all of
\* the table's rows, within the window, when there is no filter object).
C10_ConjunctiveFilter ==
    query.state = "done" =>
       LET Q == {i \in 1..Len(enqTable) : C10_Satisfies(enqTable[i], query.filters)}
           rest == IF Cardinality(Q) > query.offset
                   THEN Cardinality(Q) - query.offset ELSE 0
       IN /\ \A k \in 1..Len(query.data) :
                /\ query.data[k].id \in Q
                /\ query.data[k] = enqTable[query.data[k].id]
          /\ \A k, l \in 1..Len(query.data) :
                k < l => /\ query.data[k].id # query.data[l].id
                         /\ DayOf(query.data[k].enquiry_date)
                               >= DayOf(query.data[l].enquiry_date)
          /\ Len(query.data) = IF rest < query.limit THEN rest ELSE query.limit

(* ------------------------------- C11 ----------------------------------- *)
\* The positions in ExportKeys of the optional values: contact name, email and
\* phone, estimated value, next follow-up, notes.
OptionalColumns == {2, 3, 4, 7, 9, 10}

\* C11: every line of the written artifact has the 11 columns company name,
\* contact name, contact email, contact phone, status, product interest,
\* estimated value, enquiry date, next follow-up, notes, owner, in that order;
\* a cell holds its row's value, and "-" where an optional value is missing.
C11_ElevenColumnsWithDashes ==
    (exp.file # NoFile /\ exp.data # <<>>) =>
       /\ exp.file.header = <<"company_name", "contact_name", "contact_email",
                              "contact_phone", "status", "product_interest",
                              "estimated_value", "enquiry_date", "next_follow_up",
                              "notes", "owner">>
       /\ Len(exp.file.rows) = Len(exp.data)
       /\ \A i \in 1..Len(exp.file.rows) :
             /\ Len(exp.file.rows[i].cells) = 11
             /\ \A k \in 1..11 :
                   exp.file.rows[i].cells[k] =
                      IF k \in OptionalColumns /\ exp.data[i][exp.file.header[k]] = Undefined
                      THEN "-" ELSE exp.data[i][exp.file.header[k]]

(* ------------------------------- C12 ----------------------------------- *)
\* getEnquiriesForExport has built its rows.
ExportDataBuilt ==
    \/ exp.pc \in {"write", "avail", "share"}
    \/ exp.pc = "done" /\ exp.failedAt \notin {"fetch", "lookup"}

\* The stored enquiries that satisfy the filter set of the export.
Requested == SelectSeq(enqTable, LAMBDA row : C10_Satisfies(row, exp.filters))

\* C12: getEnquiriesForExport returns one export row for each stored enquiry
\* that satisfies the filter set and none for any other, in the order
\* getEnquiries returned the enquiries.
C12_OneRowPerMatch ==
    ExportDataBuilt =>
       /\ RowCount(exp.data) = RowCount(Requested)
       /\ Len(exp.data) = Len(exp.fetched)
       /\ \A i \in 1..Len(exp.data) :
             /\ C10_Satisfies(exp.fetched[i], exp.filters)
             /\ exp.data[i].status = exp.fetched[i].status
             /\ exp.data[i].copies = exp.fetched[i].copies

(* ------------------------------- C13 ----------------------------------- *)
\* C13: when a step of the export fails, handleExport gets the error and no
\* file URI; an export that ends with a URI had no failing step and its file
\* holds a line for every requested enquiry.
C13_FailsLoudly ==
    exp.pc = "done" =>
       /\ exp.failedAt # "none" =>
             exp.result = "error" /\ exp.error # Undefined
       /\ exp.result = "uri" =>
             /\ exp.failedAt = "none"
             /\ exp.file = Serialise(exp.format, exp.data)
             /\ RowCount(exp.file.rows) = RowCount(Requested)

(* ------------------------------- C14 ----------------------------------- *)
\* C14: once the platform has answered that sharing is not available, the
\* export has made no share call and has ended without error, returning the URI
\* of the file it wrote.
C14_ShareBestEffort ==
    exp.available = "no" =>
       /\ exp.pc = "done"
       /\ exp.shareCalls = 0
       /\ exp.result = "uri" /\ exp.error = Undefined
       /\ exp.file = Serialise(exp.format, exp.data)

\* An Excel export of some rows has ended with its URI where sharing was not
\* available.
C14_Witness ==
    /\ exp.pc = "done" /\ exp.available = "no" /\ exp.format = "xlsx"
    /\ exp.result = "uri" /\ exp.data # <<>> /\ exp.file # NoFile

(* ------------------------------- C15 ----------------------------------- *)
\* The number of characters of the text before its first / after its last
\* character that is not white space.
RECURSIVE LeadingBlanks(_)
LeadingBlanks(content) ==
    IF content = <<>> \/ Head(content).ch \notin {" ", "\n"} THEN 0
    ELSE Head(content).n + LeadingBlanks(Tail(content))

Reversed(content) == [i \in 1..Len(content) |-> content[Len(content) + 1 - i]]

Blank(content) == \A i \in 1..Len(content) : content[i].ch \in {" ", "\n"}

TrimmedLength(content) ==
    IF Blank(content) THEN 0
    ELSE Length(content) - LeadingBlanks(content) - LeadingBlanks(Reversed(content))

\* The text has an opening bracket and, after it, its closing bracket; with
\* sameLine, on the same line.
HasBracketPair(content, open, close, sameLine) ==
    \E i, j \in 1..Len(content) :
       /\ i < j /\ content[i].ch = open /\ content[j].ch = close
       /\ sameLine => \A k \in i..j : content[k].ch # "\n"

HasPlaceholder(content, sameLine) ==
    \/ HasBracketPair(content, "[", "]", sameLine)
    \/ HasBracketPair(content, "{", "}", sameLine)

Rejected == ~ai.validation.isValid

\* C15 as stated: validateResponse rejects a text iff it is empty or blank,
\* has fewer than 50 characters, has more than 5000 characters or contains a
\* [...] or {...} placeholder.
C15_AsClaimed ==
    ai.pc = "validated" =>
       (Rejected <=> \/ Blank(ai.content)
                     \/ Length(ai.content) < 50
                     \/ Length(ai.content) > 5000
                     \/ HasPlaceholder(ai.content, FALSE))

\* C15: validateResponse rejects a text iff it is empty or blank, has fewer
\* than 50 characters once leading and trailing white space is removed, has
\* more than 5000 characters, or has an opening [ or { followed on the same
\* line by the matching ] or }.  A 10-character text that is not blank is
\* rejected as too short, a text of admissible length with a {...} on one line
\* as containing unresolved placeholders, and 200 letters pass.
C15_RejectsIff ==
    ai.pc = "validated" =>
       /\ Rejected <=> \/ Blank(ai.content)
                       \/ TrimmedLength(ai.content) < 50
                       \/ Length(ai.content) > 5000
                       \/ HasPlaceholder(ai.content, TRUE)
       /\ (Length(ai.content) = 10 /\ ~Blank(ai.content)) =>
             ai.validation = [isValid |-> FALSE, message |-> "Generated content is too short"]
       /\ (/\ HasBracketPair(ai.content, "{", "}", TRUE)
           /\ TrimmedLength(ai.content) >= 50 /\ Length(ai.content) <= 5000) =>
             ai.validation = [isValid |-> FALSE,
                              message |-> "Generated content contains unresolved placeholders"]
       /\ ai.content = <<[ch |-> "a", n |-> 200]>> => ai.validation.isValid

\* A text of 50 characters, 49 letters and a trailing blank, has been rejected
\* as too short.
C15_Witness ==
    /\ ai.pc = "validated"
    /\ ai.content = <<[ch |-> "a", n |-> 49], [ch |-> " ", n |-> 1]>>
    /\ ai.validation = [isValid |-> FALSE, message |-> "Generated content is too short"]

(* ------------------------------- C16 ----------------------------------- *)
\* A step of a handleGenerateEmail attempt: the button press, or the settling
\* of one of its generation calls.
AttemptStep ==
    \/ HandleGenerateEmail
    \/ ai.method = "handleGenerateEmail" /\ ai.pc # "idle" /\ ai'.pc # ai.pc

\* generateEmail has returned a body that validateResponse accepts.
GeneratedValid(rec) ==
    /\ rec.pc = "idle" /\ rec.result.kind = "value"
    /\ validateResponse(rec.result.value.body).isValid

\* The message of the failure that ended the attempt.
FailureMessage(loaded, rec) ==
    IF ~loaded THEN <<"Missing required data">>
    ELSE IF rec.result.kind = "error" THEN rec.result.message
    ELSE <<"Generated content validation failed: ",
           validateResponse(rec.result.value.body).message>>

\* C16: a step of a handleGenerateEmail attempt that does not end it with a
\* valid generated body leaves the stored subject, body and edit mode as they
\* were; when the attempt ends in a failure (missing data, generation error or
\* invalid body) the screen's error is the failure's message, nothing is left
\* in flight and the failing step has issued no generation call; an attempt
\* issues at most two generation calls.
C16_FailureKeepsDraft ==
    /\ [][AttemptStep =>
            /\ ~GeneratedValid(ai') =>
                  /\ ai'.emailSubject = ai.emailSubject
                  /\ ai'.emailBody = ai.emailBody
                  /\ ai'.editMode = ai.editMode
            /\ (ai'.pc = "idle" /\ ~GeneratedValid(ai')) =>
                  /\ ai'.error = FailureMessage(ai.loaded, ai')
                  /\ ai'.error # NullStr
                  /\ ~ai'.generating
                  /\ ai'.calls = IF ai.pc = "idle" THEN 0 ELSE ai.calls]_vars
    /\ [](ai.calls <= 2)

\* A regeneration has ended with a body that failed validation while an earlier
\* generated email is stored.
C16_Witness ==
    /\ ai.pc = "idle" /\ ai.method = "handleGenerateEmail" /\ ai.result.kind = "value"
    /\ ~validateResponse(ai.result.value.body).isValid
    /\ ai.error = <<"Generated content validation failed: ", "Generated content is too short">>
    /\ ai.emailBody = <<[ch |-> "a", n |-> 200]>> /\ ai.editMode
    /\ ai.calls = 2

(* ------------------------------- C17 ----------------------------------- *)
\* The last invocation failed with the configuration error and issued no
\* generation call.
ConfigurationError ==
    /\ ai.pc = "idle" /\ ai.calls = 0 /\ ai.result.kind = "error"
    /\ \E i \in 1..Len(ai.result.message) : ai.result.message[i] = KeyNotConfigured

\* The last invocation failed and issued no generation call.
FailedBeforeCall == ai.pc = "idle" /\ ai.calls = 0 /\ ai.result.kind = "error"

\* C17 as stated: without API key every generation method fails with the
\* configuration error and issues no generation call, and so does every one of
\* them that is given an unknown template kind.
C17_AsClaimed ==
    (ai.method # "none" /\ (ai.method = "handleGenerateEmail" => ai.loaded)) =>
       /\ ~ai.apiKey => ConfigurationError
       /\ ai.template \notin EMAIL_TEMPLATES => FailedBeforeCall

\* C17: without API key generateEmail, generateEmailSubject and
\* generateEmailBody fail with the configuration error and issue no generation
\* call; with an unknown template kind generateEmail and generateEmailBody fail
\* before any generation call, while generateEmailSubject, with the key set,
\* issues its call for every template kind.
C17_FailsBeforeCall ==
    (ai.method # "none" /\ (ai.method = "handleGenerateEmail" => ai.loaded)) =>
       /\ ~ai.apiKey => ConfigurationError
       /\ (ai.template \notin EMAIL_TEMPLATES
             /\ ai.method \in {"generateEmail", "generateEmailBody"}) => FailedBeforeCall
       /\ (ai.apiKey /\ ai.method = "generateEmailSubject") => ai.calls = 1

\* generateEmailBody has failed without API key.
C17_Witness ==
    /\ ~ai.apiKey /\ ai.method = "generateEmailBody" /\ ai.pc = "idle"
    /\ ai.calls = 0
    /\ ai.result = [kind |-> "error",
                    message |-> <<"Failed to generate body: ", KeyNotConfigured>>]

(* ------------------------------- C18 ----------------------------------- *)
\* The answers to the queries of the finished call that carry a backend error,
\* the row-not-found answer to a lookup by id apart.
FailedReplies ==
    {i \in 1..Len(db.replies) :
        /\ db.replies[i].error # "none"
        /\ ~(db.op \in ByIdOps /\ db.replies[i].error = "PGRST116")}

\* C18: an operation of SupabaseService whose backend query failed rethrows
\* that error and returns nothing (getDashboardSummary returns no summary);
\* it returns a value only when every one of its queries succeeded.
C18_NoSwallowedError ==
    db.pc = "done" =>
       IF FailedReplies = {}
       THEN db.result.kind = "value"
       ELSE \E i \in FailedReplies : db.result = [kind |-> "error", error |-> db.replies[i].error]

(* ------------------------------- C19 ----------------------------------- *)
\* The row with the id of the call in the table the call reads, if any.
StoredRow(op, id) ==
    IF op = "getCompanyById" THEN {row \in companies : row.id = id}
    ELSE IF op = "getContactById" THEN {row \in contacts : row.id = id}
    ELSE {enqTable[i] : i \in {j \in 1..Len(enqTable) : enqTable[j].id = id}}

\* C19: getCompanyById, getContactById and getEnquiryById return null when the
\* backend answers PGRST116, return the stored row when there is one, and
\* rethrow every other backend error.
C19_LookupById ==
    (db.pc = "done" /\ db.op \in {"getCompanyById", "getContactById", "getEnquiryById"}) =>
       LET reply == db.replies[1]
       IN /\ reply.error = "PGRST116" =>
                db.result = [kind |-> "value", value |-> [id |-> Undefined]]
          /\ reply.error = "none" =>
                /\ db.result.kind = "value"
                /\ db.result.value \in StoredRow(db.op, db.id)
          /\ reply.error \notin {"none", "PGRST116"} =>
                db.result = [kind |-> "error", error |-> reply.error]

\* getContactById has returned null for an id that no contact has.
C19_Witness ==
    /\ db.pc = "done" /\ db.op = "getContactById" /\ db.id = "none"
    /\ db.replies = <<[data |-> [id |-> Undefined], error |-> "PGRST116"]>>
    /\ db.result = [kind |-> "value", value |-> [id |-> Undefined]]

(* ------------------------------- C20 ----------------------------------- *)
\* A required field with a length rule passes its checks.
FieldPasses(value, min, max) ==
    /\ \E i \in 1..Len(value) : value[i].ch \notin {" ", "\n"}
    /\ Length(value) >= min /\ Length(value) <= max

\* One @, not first, no white space, and after the @ a dot with a character on
\* either side.
WellFormedEmail(email) ==
    /\ Cardinality({i \in 1..Len(email) : email[i] = "@"}) = 1
    /\ email[1] # "@"
    /\ \A i \in 1..Len(email) : email[i] \notin {" ", "\n"}
    /\ \E i, j \in 1..Len(email) : email[i] = "@" /\ email[j] = "." /\ j > i + 1 /\ j < Len(email)

\* The input of the last handler run passed every check of its flow.
PassedAllChecks ==
    IF form.flow = "company"
    THEN FieldPasses(form.input.name, 2, 100) /\ FieldPasses(form.input.industry, 2, 50)
    ELSE IF form.flow = "contact"
    THEN /\ FieldPasses(form.input.name, 2, 100)
         /\ FieldPasses(form.input.designation, 2, 50)
         /\ form.input.email = <<>> \/ WellFormedEmail(form.input.email)
    ELSE FieldPasses(form.input.product_interest, 2, 100)

\* The company that was selected when the handler ran.
CompanyAtPress ==
    IF form.flow = "company" \/ form.calls = <<>> THEN form.selectedCompany
    ELSE form.calls[1].company_id

\* C20: when the input of a create flow fails a required, length or email
\* check, or no company is selected for a contact or an enquiry, an alert
\* reports it and no create call is sent; a create call is sent only for input
\* that passed every check of its flow, and it is that flow's create call.
C20_ValidatedBeforeCreate ==
    form.flow # "none" =>
       LET ok == /\ PassedAllChecks
                 /\ form.flow \in {"contact", "enquiry"} => CompanyAtPress # Undefined
       IN /\ ~ok => form.calls = <<>> /\ form.alert # <<>> /\ form.pc = "idle"
          /\ form.calls # <<>> =>
                /\ ok /\ form.alert = <<>>
                /\ Len(form.calls) = 1
                /\ form.calls[1].op = CreateOf(form.flow)
                /\ form.calls[1].row = form.input

\* handleCreateContact has ended with the email alert and without a create
\* call, for a contact whose other fields are valid.
C20_Witness ==
    /\ form.pc = "idle" /\ form.flow = "contact" /\ form.selectedCompany = "c1"
    /\ form.input = [name |-> <<[ch |-> "a", n |-> 2]>>,
                     designation |-> <<[ch |-> "a", n |-> 50]>>,
                     email |-> <<"a", "@", "b">>]
    /\ form.alert = <<"Validation Error", "Please enter a valid email address">>
    /\ form.calls = <<>>

(* ----------------------- EnquiryDetailScreen --------------------------- *)
\* This step starts an invocation of handleStatusChange.
StatusChangeSent ==
    /\ Len(inflight') = Len(inflight) + 1
    /\ inflight'[Len(inflight')].handler = "handleStatusChange"

\* This step settles the i-th invocation, a status change, with success.
StatusChangeStored(i) ==
    /\ i \in 1..Len(inflight)
    /\ inflight[i].handler = "handleStatusChange"
    /\ inflight' = Without(inflight, i)
    /\ detail'.error = detail.error

\* `after` is `before` with nothing but the status of enquiry `id` set.
OnlyStatusSet(before, after, id, status) ==
    /\ Len(after) = Len(before)
    /\ \A j \in 1..Len(before) :
          after[j] = IF before[j].id = id THEN [before[j] EXCEPT !.status = status]
                     ELSE before[j]

\* C21: handleStatusChange sends an update that names only the status, for the
\* enquiry of the screen, and storing it changes nothing but that status,
\* whatever unsaved edits the edit state holds.
C21_StatusOnly ==
    [][/\ StatusChangeSent =>
             /\ inflight'[Len(inflight')].id = detail.enquiryId
             /\ DOMAIN inflight'[Len(inflight')].updates = {"status"}
       /\ \A i \in 1..MaxInflight :
             StatusChangeStored(i) =>
                \/ enqTable' = enqTable
                \/ OnlyStatusSet(enqTable, enqTable', detail.enquiryId,
                                 inflight[i].updates.status)]_vars

\* A status change was stored while the edit state holds an unsaved note.
C21_Witness ==
    /\ enqTable[1].status = "won"
    /\ detail.enquiry.status = "won"
    /\ enqTable[1].notes = "n0"
    /\ detail.editData.notes = "typed"
    /\ detail.editData.status = "new"

(* --------------------------- backend tables ----------------------------- *)
\* This step stores the enquiry of the add-enquiry flow.
FlowCreates ==
    /\ form.pc = "creating"
    /\ form'.pc = "idle"
    /\ Len(enqTable') = Len(enqTable) + 1

\* C22: an enquiry created through the add-enquiry flow is stored with status
\* 'new', and every stored status is one of the six values of the list.
C22_StoredStatus ==
    /\ [](\A i \in 1..Len(enqTable) : enqTable[i].status \in AVAILABLE_STATUSES)
    /\ [][FlowCreates => enqTable'[Len(enqTable')].status = "new"]_vars

\* The flow has stored an enquiry, which is there with status 'new'.
C22_Witness ==
    /\ form.created # Undefined
    /\ \E i \in 1..Len(enqTable) :
          enqTable[i].id = form.created /\ enqTable[i].status = "new"

\* This step deletes contacts and no company.
ContactDeleted ==
    /\ companies' = companies
    /\ contacts' # contacts
    /\ contacts' \subseteq contacts

\* C23: deleting a contact leaves each enquiry that referenced it in place with
\* a null contact reference and changes no other enquiry; no enquiry ever
\* references a contact that does not exist.
C23_ContactReference ==
    /\ [](\A i \in 1..Len(enqTable) :
             enqTable[i].contact_id \in IdsOf(contacts) \cup {Undefined})
    /\ [][ContactDeleted =>
             /\ Len(enqTable') = Len(enqTable)
             /\ \A i \in 1..Len(enqTable) :
                   enqTable'[i] = IF enqTable[i].contact_id \in IdsOf(contacts')
                                     \/ enqTable[i].contact_id = Undefined
                                  THEN enqTable[i]
                                  ELSE [enqTable[i] EXCEPT !.contact_id = Undefined]]_vars

\* The enquiry the flow created with a contact is still there, without the
\* reference, the contact having been deleted while every company remains.
C23_Witness ==
    /\ form.created # Undefined
    /\ form.calls[1].contact_id \in ContactIds
    /\ form.calls[1].contact_id \notin IdsOf(contacts)
    /\ IdsOf(companies) = db.issued \cap CompanyIds
    /\ \E i \in 1..Len(enqTable) :
          enqTable[i].id = form.created /\ enqTable[i].contact_id = Undefined

(* ------------------------------- C24 ----------------------------------- *)
\* C24: an invocation of generateEmail issues its generation calls one after
\* the other, the subject call when the body call has completed; it returns a
\* subject and a body after exactly two calls; when the body call fails no
\* subject call is issued, and when either call fails the invocation throws
\* and returns neither subject nor body.
C24_BodyThenSubject ==
    /\ [][ServiceMethod(ai'.method) = "generateEmail" =>
             /\ (ai'.pc = "body" /\ ai.pc # "body") => (ai.pc = "idle" /\ ai'.calls = 1)
             /\ (ai'.pc = "subject" /\ ai.pc # "subject") =>
                   (ai.pc = "body" /\ ai.calls = 1 /\ ai'.calls = 2)
             /\ (ai.pc = "body" /\ ai'.pc = "idle") =>
                   (ai'.result.kind = "error" /\ ai'.calls = 1)
             /\ (ai.pc = "subject" /\ ai'.pc = "idle") => ai'.calls = 2]_vars
    /\ [](ServiceMethod(ai.method) = "generateEmail" /\ ai.pc = "idle" =>
             /\ ai.result.kind = "value" =>
                   (ai.calls = 2 /\ DOMAIN ai.result.value = {"subject", "body"})
             /\ ai.result.kind = "error" => DOMAIN ai.result = {"kind", "message"})

\* generateEmail has failed in its body call, having issued that call alone.
C24_Witness ==
    /\ ServiceMethod(ai.method) = "generateEmail" /\ ai.pc = "idle"
    /\ ai.calls = 1
    /\ ai.result = Throws("generateEmail", <<"generateContent failed">>)

(* ------------------------------- C25 ----------------------------------- *)
\* C25: of each screen operation at most one invocation is in flight at any
\* time, whatever the user taps.
C25_SingleOutstanding ==
    \A i, j \in 1..Len(inflight) : inflight[i].handler = inflight[j].handler => i = j

(* ------------------------------- C26 ----------------------------------- *)
\* The sync fetched, its cancel-all succeeded, no schedule call of it failed
\* and no other invocation ran while it did.
CleanSync(rec) ==
    /\ rec.op = "sync" /\ rec.path = "fetched"
    /\ rec.cancelOk /\ rec.firstFail = 0 /\ rec.alone

MapKeys == {r \in RIDs : scheduledNotifications[r] # Null}

\* The ids of the fetched rows that are not completed and due after `today`.
FutureIds(rows, today) ==
    {rows[i].id : i \in {j \in 1..Len(rows) : ~rows[j].is_completed /\ rows[j].date > today}}

\* C26: a sync whose fetch, cancel-all and schedule calls succeed, alone, calls
\* the platform for a fetched reminder exactly when it is not completed and due
\* strictly after the current time, and records the identifier that call
\* returned under the reminder's id; when it returns, the keys of the map are
\* fetched reminders that are not completed, among them every one still due,
\* each with the identifier of its own pending notification.  Nothing is
\* assumed of the map before the sync.
C26_SyncRebuildsMap ==
    /\ []((SyncEnded /\ CleanSync(ev.fin)) =>
             /\ FutureIds(ev.fin.fetched, now) \subseteq MapKeys
             /\ MapKeys \subseteq FutureIds(ev.fin.fetched, -1)
             /\ \A r \in FutureIds(ev.fin.fetched, now) :
                   Notification(scheduledNotifications[r], r, reminders[r].date) \in pending
             /\ \A r, q \in MapKeys :
                   scheduledNotifications[r] = scheduledNotifications[q] => r = q)
    /\ [][\A t \in Tasks :
            (CleanSync(tasks[t]) /\ Stepped(t)) =>
               /\ tasks[t].pc = "sync_loop" =>
                     LET row == tasks[t].fetched[tasks[t].idx]
                     IN /\ ev'.api = "schedule" <=> (~row.is_completed /\ row.date > now)
                        /\ (ev'.api = "schedule" /\ ev'.ok) =>
                              /\ tasks'[t].pc = "sync_set" /\ tasks'[t].rid = row.id
                              /\ tasks'[t].handle \notin HandlesInUse
                              /\ Notification(tasks'[t].handle, row.id, row.date) \in pending'
               /\ tasks[t].pc = "sync_set" =>
                     scheduledNotifications' =
                        [scheduledNotifications EXCEPT ![tasks[t].rid] = tasks[t].handle]]_vars

\* Such a sync has ended: it removed what was pending and both reminders are in
\* the map, each under its own identifier.
C26_Witness ==
    /\ SyncEnded /\ CleanSync(ev.fin) /\ ev.fin.swept
    /\ Len(ev.fin.fetched) = 2
    /\ MapKeys = {1, 2}
    /\ scheduledNotifications[1] # scheduledNotifications[2]

(* ------------------------------- C29 ----------------------------------- *)
\* C29: when the fetch of the upcoming reminders fails, syncReminders returns
\* normally there and then: it has called neither cancel nor schedule, the map
\* and the pending notifications are as they were, and the Settings screen
\* reports success.
C29_FetchFailureIsSilent ==
    [][(ev'.api = "fetch" /\ ~ev'.ok) =>
          /\ ev'.fin.op = "sync" /\ ev'.fin.ret = "returned"
          /\ ev'.fin.calls = <<>> /\ ~ev'.fin.cancelOk /\ ev'.fin.path = "none"
          /\ \A t \in Tasks : tasks'[t].op = "sync" => tasks[t] = tasks'[t]
          /\ scheduledNotifications' = scheduledNotifications
          /\ pending' = pending
          /\ SyncAlert(ev'.fin) = <<"Success", "Reminders synced successfully">>]_vars

\* A sync has ended on a failed fetch while a notification is pending and in
\* the map.
C29_Witness ==
    /\ ev.api = "fetch" /\ ~ev.ok /\ ev.fin.op = "sync"
    /\ \E n \in pending : n.rid \in RIDs /\ scheduledNotifications[n.rid] = n.h

(* ------------------------------- C27 ----------------------------------- *)
\* C27: whenever a step of cancelReminderNotification or cancelAllNotifications
\* removes an entry from the map, no pending platform notification carries the
\* identifier the entry held.
C27_RemovedMeansCancelled ==
    [][\A r \in RIDs :
          (/\ scheduledNotifications[r] # Null
           /\ scheduledNotifications'[r] = Null
           /\ \E t \in Tasks : Stepped(t))
             => \A n \in pending' : n.h # scheduledNotifications[r]]_vars

(* ------------------------------- C28 ----------------------------------- *)
\* The handler ends in this step, the backend having stored its change.
HandlerStored == detail.pc # "idle" /\ detail'.pc = "idle" /\ detail'.outcome = "stored"

\* C28: when handleCompleteReminder or handleDeleteReminder ends after the
\* backend stored the change of reminder r, no platform notification for r is
\* pending, whatever the map held; when the backend call fails no notification
\* is cancelled.
C28_HandledMeansCancelled ==
    [][/\ HandlerStored => \A n \in pending' : n.rid # detail.rid
       /\ (detail.pc = "backend" /\ detail'.outcome = "failed") => pending' = pending]_vars

====
